---- MODULE Spec2Model ----
(***************************************************************************)
(* The live radio monitor (runService) as state machines over the          *)
(* single-threaded event loop: the broadcast assembler (chunk arrivals,    *)
(* idle-flush timer, merge pipeline), the recorder (capture subprocess,    *)
(* segment-start handler, restarts, watchdog) and the metadata poller.     *)
(* One action is one synchronous run of a callback up to its next await.   *)
(* Each component has its own specification; the variables of the other    *)
(* components stay as they are at construction.                            *)
(***************************************************************************)
EXTENDS Integers, Sequences, FiniteSets, TLC

\* ---------------------------------------------------------------- bounds
MaxChunks == 4          \* chunk files the recorder produces in a run
MaxTicks == 8           \* idle-timer periods before the clock may stop
MaxSamples == 2         \* metadata samples looked at per classification
MaxUnlinkFailures == 1  \* fs.unlink calls that reject in a run
MaxSpawns == 2          \* capture subprocesses spawned in a run
MaxPolls == 3           \* metadata polls started in a run
MaxTextLen == 3         \* characters in the text of a transcript segment
MaxTitleSegments == 2   \* transcript segments generateTitle is given
MaxWordsArg == 2        \* largest maxWords generateTitle is given
MaxSubFiles == 2        \* sub-files an oversized audio file is split into
MaxEntries == 3         \* entries in the directory an index rebuild reads
MaxSegments == 3        \* segments the service returns for one audio file, sub-files together
MaxEpisodeIds == 2      \* distinct episode ids the API endpoints report
MaxResponseLen == 2     \* episodes in the answer of one API endpoint
MaxRuns == 2            \* runs of the scraper loop
MaxDays == 1            \* distinct publication days of the episodes

\* ------------------------------------------------------ program constants
CHUNK_DURATION_SECS == 120
IDLE_INTERVAL_MS == 60000
IDLE_THRESHOLD_MS == 300000
TITLE_MAX_WORDS == 10
RESTART_DELAY_MS == 5000
WATCHDOG_INTERVAL_MS == 60000
STALE_THRESHOLD_MS == 300000
POLL_INTERVAL_MS == 1000
RETENTION_MS == 900000
MAX_FILE_SIZE == 20971520
SLUG_MAX_LENGTH == 60

NoArtist == "null"

VARIABLES
    now,            \* Date.now(), ms
    pendingChunks,  \* let pendingChunks: ChunkInfo[]
    isProcessing,   \* let isProcessing
    tasks,          \* every merge ever started, in start order, with its position
    delivered,      \* calls of processCompletedChunk so far, in call order
    files,          \* chunk files present in the chunk directory
    unlinkCalled,   \* chunk files fs.unlink was issued for
    audio,          \* live/<id>/audio.mp3, by id: the chunk files concatenated
    records,        \* live/<id>/broadcast.json, by id
    index,          \* live/index.json
    completedSegments,    \* const completedSegments = new Set<string>()
    currentSegmentStart,  \* let currentSegmentStart: {} for null
    lastChunkTime,        \* let lastChunkTime
    ffmpegProcess,        \* let ffmpegProcess: {} for null, else {instance}
    procs,          \* every capture subprocess ever spawned, in spawn order
    restartTimers,  \* due times of the pending setTimeout(startRecording)
    watchdogDue,    \* when the watchdog interval fires next
    handed,         \* chunk files the recorder passed to processCompletedChunk
    segmentEvents,  \* segment-start lines the stderr handler has matched
    metadataBuffer, \* const metadataBuffer: MetadataSample[]
    lastMetaStatus, \* let lastMetaStatus
    polls,          \* every poll ever started, in start order
    lastSamples,    \* samples in the range of the chunk classified last
    groqApiKey,     \* process.env.GROQ_API_KEY is set
    service,        \* position of runService
    exitCode,       \* {} while the process lives, else {status}
    intervals,      \* the setInterval timers armed so far
    fileSize,       \* getFileSize(inputPath) of the file being transcribed
    chunkResults,   \* what transcribeChunk returns, per (sub-)file
    chunkCursor,    \* sub-files transcribed so far (the loop's i)
    timeOffsetMs,   \* let timeOffsetMs
    allSegments,    \* const allSegments / the value transcribeAudio returns
    transcribePc,   \* position of transcribeAudio
    titleSegments,  \* generateTitle's argument segments
    titleMaxWords,  \* generateTitle's argument maxWords
    titleReturned,  \* {} before the call, else {the string returned}
    liveDir,        \* entries of the directory an index rebuild reads
    rebuild,        \* position and outcome of the index rebuild
    archive,        \* archive/<id>/episode.json, by episode directory
    archiveIndex,   \* archive/index.json: {} before it is written
    scraperPc,      \* position of runScraperLoop / runScraperOnce / processEpisode
    endpoint,       \* fetchEpisodes: position in API_ENDPOINTS
    allEpisodes,    \* const allEpisodes: APIEpisode[]
    seenIds,        \* const seenIds = new Set<number>()
    episodeCursor,  \* runScraperOnce: position of the episode loop
    episodeTranscript,  \* processEpisode: const transcript, {} before it is set
    episodeReturned,    \* what the last call of processEpisode returned: {} for none
    cfCookie,       \* let cfCookie is set
    runs            \* runs of runScraperOnce started so far

asmVars == <<pendingChunks, isProcessing, tasks, delivered, unlinkCalled,
             audio, records, index>>

recVars == <<completedSegments, currentSegmentStart, lastChunkTime,
             ffmpegProcess, procs, restartTimers, watchdogDue, handed,
             segmentEvents>>

metaVars == <<metadataBuffer, lastMetaStatus, polls>>

startVars == <<groqApiKey, service, exitCode, intervals>>

trVars == <<fileSize, chunkResults, chunkCursor, timeOffsetMs, allSegments,
            transcribePc>>

titleVars == <<titleSegments, titleMaxWords, titleReturned>>

idxVars == <<liveDir, rebuild>>

scrVars == <<archive, archiveIndex, scraperPc, endpoint, allEpisodes, seenIds,
             episodeCursor, episodeTranscript, episodeReturned, cfCookie,
             runs>>

libVars == <<trVars, titleVars, idxVars, scrVars>>

vars == <<now, files, asmVars, recVars, metaVars, lastSamples, startVars,
          libVars>>

\* ------------------------------------------------------------ input sets
\* File names embed the start second; the recorder cuts every 120 s.
ChunkFiles == { k * CHUNK_DURATION_SECS : k \in 0..(MaxChunks - 1) }

Artists == {NoArtist, "artist"}

\* Metadata buffers a classification may see around a chunk starting at
\* startMs: samples inside and outside the chunk's range, with and without
\* artist, in the order they were pushed (timestamps never decrease).
MetadataBuffers(startMs) ==
    { b \in UNION { [1..n -> [timestamp : {startMs - 1000, startMs + 1000},
                              artist : Artists]] : n \in 0..MaxSamples } :
        \A i \in 1..(Len(b) - 1) : b[i].timestamp <= b[i + 1].timestamp }

\* Strings are sequences of characters. The text the transcription
\* service hears in one chunk of audio: three words.
ChunkWords == <<"a", " ", "b", " ", "c">>

\* What transcribeAudio returns for the concatenation of inputPaths: one
\* segment per chunk, in milliseconds from the start of the merged file.
TranscriptOf(inputPaths) ==
    [k \in 1..Len(inputPaths) |->
        [start |-> (k - 1) * CHUNK_DURATION_SECS * 1000,
         end |-> k * CHUNK_DURATION_SECS * 1000,
         text |-> ChunkWords]]

\* --------------------------------------------------------------- helpers
Last(s) == s[Len(s)]

RECURSIVE SelectSamples(_, _, _)
SelectSamples(buffer, startMs, endMs) ==
    IF buffer = <<>> THEN <<>>
    ELSE LET s == Head(buffer)
             rest == SelectSamples(Tail(buffer), startMs, endMs)
         IN IF s.timestamp >= startMs /\ s.timestamp <= endMs
            THEN <<s>> \o rest ELSE rest

chunkHasSpeech(buffer, startMs, endMs) ==
    LET samples == SelectSamples(buffer, startMs, endMs)
    IN \E i \in 1..Len(samples) : samples[i].artist = NoArtist

\* new Date(y, m, d, h, min, s) of the instant embedded in the file name
ParseSegmentStart(file) == file * 1000

\* Date.prototype.toISOString, time-of-day fields with their separators
toISOString(ms) ==
    [hh |-> ms \div 3600000, mm |-> (ms \div 60000) % 60,
     ss |-> (ms \div 1000) % 60, sss |-> ms % 1000,
     colon |-> ":", dot |-> "."]

\* the id keeping only the hour of the start instant
BroadcastId_HourOnly(iso) ==
    [iso EXCEPT !.mm = 0, !.ss = 0, !.sss = 0, !.colon = "-", !.dot = "-"]

\* .replace(/[:.]/g, "-")
BroadcastId(iso) == [iso EXCEPT !.colon = "-", !.dot = "-"]

RECURSIVE SumDuration(_)
SumDuration(chunks) ==
    IF chunks = <<>> THEN 0
    ELSE Head(chunks).duration + SumDuration(Tail(chunks))

\* the characters \s matches
Whitespace == {" "}

\* Array.prototype.join(sep)
RECURSIVE JoinWith(_, _)
JoinWith(strings, sep) ==
    IF strings = <<>> THEN <<>>
    ELSE IF Len(strings) = 1 THEN strings[1]
    ELSE strings[1] \o sep \o JoinWith(Tail(strings), sep)

\* the first position from i on that holds no whitespace
RECURSIVE SkipWhitespace(_, _)
SkipWhitespace(text, i) ==
    IF i <= Len(text) /\ text[i] \in Whitespace
    THEN SkipWhitespace(text, i + 1) ELSE i

\* where the pieces of split(/\s+/) start: at the first position and after
\* every maximal run of whitespace
PieceStarts(text) ==
    SelectSeq([j \in 1..(Len(text) + 1) |-> j],
              LAMBDA j : j = 1 \/ (text[j - 1] \in Whitespace
                                     /\ (j > Len(text)
                                            \/ text[j] \notin Whitespace)))

\* where the piece that starts at from ends: before the next whitespace
PieceEnd(text, from) ==
    CHOOSE e \in (from - 1)..Len(text) :
        e = Len(text) \/ text[e + 1] \in Whitespace

\* String.prototype.split(/\s+/): the pieces between the maximal runs of
\* whitespace, an empty piece where the string starts or ends with
\* whitespace. (Quantifiers bind the string and the starts, which has them
\* computed once.)
SplitWhitespace(string) ==
    CHOOSE pieces \in
        UNION { { [k \in 1..Len(starts) |->
                     SubSeq(text, starts[k], PieceEnd(text, starts[k]))] :
                   starts \in {PieceStarts(text)} } :
                 text \in {string} } : TRUE

\* the title made of the pieces as split, empty ones included
generateTitle_NoFilter(segments, maxWords) ==
    LET fullText == JoinWith([i \in 1..Len(segments) |-> segments[i].text],
                             <<" ">>)
        words == SplitWhitespace(fullText)
        Title(ws) ==
            JoinWith(SubSeq(ws, 1, IF Len(ws) < maxWords THEN Len(ws)
                                   ELSE maxWords), <<" ">>)
                \o (IF Len(ws) > maxWords THEN <<".", ".", ".">> ELSE <<>>)
    IN CHOOSE title \in { Title(ws) : ws \in {words} } : TRUE

generateTitle(segments, maxWords) ==
    LET fullText == JoinWith([i \in 1..Len(segments) |-> segments[i].text],
                             <<" ">>)
        words == SelectSeq(SplitWhitespace(fullText), LAMBDA w : Len(w) > 0)
        Title(ws) ==
            JoinWith(SubSeq(ws, 1, IF Len(ws) < maxWords THEN Len(ws)
                                   ELSE maxWords), <<" ">>)
                \o (IF Len(ws) > maxWords THEN <<".", ".", ".">> ELSE <<>>)
    IN CHOOSE title \in { Title(ws) : ws \in {words} } : TRUE

ChunkPaths(chunks) == [i \in 1..Len(chunks) |-> chunks[i].file]

ChunkFileSet(chunks) == { chunks[i].file : i \in 1..Len(chunks) }

\* the record stamped with the last chunk and its duration alone
MakeBroadcast_LastChunk(chunks, transcript) ==
    LET firstChunk == chunks[1]
        id == BroadcastId(toISOString(firstChunk.startTime))
    IN [id |-> id,
        title |-> generateTitle(transcript, TITLE_MAX_WORDS),
        timestamp |-> toISOString(Last(chunks).startTime),
        duration |-> Last(chunks).duration,
        audioFile |-> <<"live", id, "audio.mp3">>,
        transcript |-> transcript]

MakeBroadcast(chunks, transcript) ==
    LET firstChunk == chunks[1]
        id == BroadcastId(toISOString(firstChunk.startTime))
    IN [id |-> id,
        title |-> generateTitle(transcript, TITLE_MAX_WORDS),
        timestamp |-> toISOString(firstChunk.startTime),
        duration |-> SumDuration(chunks),
        audioFile |-> <<"live", id, "audio.mp3">>,
        transcript |-> transcript]

TaskId(i) == BroadcastId(toISOString(tasks[i].chunks[1].startTime))

IsoKey(iso) == ((iso.hh * 60 + iso.mm) * 60 + iso.ss) * 1000 + iso.sss

\* b.timestamp.localeCompare(a.timestamp) < 0 on fixed-width ISO strings
TimestampAfter(a, b) == IsoKey(a.timestamp) > IsoKey(b.timestamp)

RECURSIVE SortDescending(_)
SortDescending(S) ==
    IF S = {} THEN <<>>
    ELSE LET top == CHOOSE b \in S : \A c \in S \ {b} : ~TimestampAfter(c, b)
         IN <<top>> \o SortDescending(S \ {top})

\* -------------------------------------------------------------- initial
\* the assembler before the first chunk
AssemblerIdle ==
    /\ pendingChunks = <<>>
    /\ isProcessing = FALSE
    /\ tasks = <<>>
    /\ delivered = <<>>
    /\ unlinkCalled = {}
    /\ audio = {}
    /\ records = {}
    /\ index = <<>>
    /\ lastSamples = 0

\* the recorder before startRecording is called
RecorderIdle ==
    /\ completedSegments = {}
    /\ currentSegmentStart = {}
    /\ lastChunkTime = 0
    /\ ffmpegProcess = {}
    /\ procs = <<>>
    /\ restartTimers = <<>>
    /\ watchdogDue = WATCHDOG_INTERVAL_MS
    /\ handed = <<>>
    /\ segmentEvents = 0

\* the poller before its first tick
PollerIdle ==
    /\ metadataBuffer = <<>>
    /\ lastMetaStatus = "music"
    /\ polls = <<>>

\* runService past its start-up: the credential was there, the
\* directories exist and the three interval timers are armed
ServiceRunning ==
    /\ groqApiKey = TRUE
    /\ service = "running"
    /\ exitCode = {}
    /\ intervals = {"poll", "watchdog", "idle"}

\* no call of transcribeAudio under way
TranscriberIdle ==
    /\ fileSize = 0
    /\ chunkResults = <<>>
    /\ chunkCursor = 0
    /\ timeOffsetMs = 0
    /\ allSegments = <<>>
    /\ transcribePc = "idle"

\* no call of generateTitle under way
TitleIdle ==
    /\ titleSegments = <<>>
    /\ titleMaxWords = TITLE_MAX_WORDS
    /\ titleReturned = {}

\* no index rebuild under way
IndexerIdle ==
    /\ liveDir = {}
    /\ rebuild = "idle"

\* the characters of the prefix of `episode-${episode.id}`, shortened
EpisodePrefix == <<"e", "-">>

\* names of the episode directories under archive/
EpisodeDirs ==
    [date : 1..MaxDays, slug : {<<"a", "-">>}, wpId : {0}]
      \cup [date : 1..MaxDays, slug : {EpisodePrefix},
            wpId : 1..MaxEpisodeIds]

NoRecord == [json |-> "absent", wpId |-> 0, url |-> <<>>, timestamp |-> 0,
             transcript |-> ""]

\* the scraper has not started and the archive is empty
ScraperIdle ==
    /\ archive = [d \in EpisodeDirs |-> NoRecord]
    /\ archiveIndex = {}
    /\ scraperPc = "sleeping"
    /\ endpoint = 1
    /\ allEpisodes = <<>>
    /\ seenIds = {}
    /\ episodeCursor = 1
    /\ episodeTranscript = {}
    /\ episodeReturned = {}
    /\ cfCookie = FALSE
    /\ runs = 0

LibraryIdle == TranscriberIdle /\ TitleIdle /\ IndexerIdle /\ ScraperIdle

Init ==
    /\ now = 0
    /\ files = {}
    /\ AssemblerIdle
    /\ RecorderIdle
    /\ PollerIdle
    /\ ServiceRunning
    /\ LibraryIdle

\* chunk files an fs.unlink call has failed to remove
UnlinkFailures == files \cap unlinkCalled

\* fs.unlink(f).catch(() => {}) for every f of fs, in directory dir:
\* each call may fail and leave its file behind
Unlink(dir, fs) ==
    /\ \E failed \in SUBSET fs :
           /\ Cardinality(failed \cup UnlinkFailures) <= MaxUnlinkFailures
           /\ files' = dir \ (fs \ failed)
    /\ unlinkCalled' = unlinkCalled \cup fs

\* musicFile: the music chunk a music-path merge deletes when it is through
NewTask(trigger, chunks, musicFile) ==
    [trigger |-> trigger, chunks |-> chunks, musicFile |-> musicFile,
     pc |-> "mkdir", error |-> "none", transcript |-> <<>>]

InFlight == { i \in 1..Len(tasks) : tasks[i].pc # "done" }

\* ------------------------------------------------ processCompletedChunk
\* the music path without the check of the flag
MusicMergeGuard_NoFlag == Len(pendingChunks) > 0

MusicMergeGuard == Len(pendingChunks) > 0 /\ ~isProcessing

\* the music path without the swap to a fresh queue
MusicDrain_NoSwap(chunkFile) ==
    /\ isProcessing' = TRUE
    /\ tasks' = Append(tasks, NewTask("music", pendingChunks, {chunkFile}))
    /\ pendingChunks' = pendingChunks

MusicDrain(chunkFile) ==
    /\ isProcessing' = TRUE
    /\ tasks' = Append(tasks, NewTask("music", pendingChunks, {chunkFile}))
    /\ pendingChunks' = <<>>

\* the drained list aliasing the queue: a push also lands in the merge
SpeechBranch_Aliased(chunkFile, startTime) ==
    LET chunk == [file |-> chunkFile, startTime |-> startTime,
                  duration |-> CHUNK_DURATION_SECS * 1000, hasSpeech |-> TRUE]
    IN /\ pendingChunks' = Append(pendingChunks, chunk)
       /\ tasks' = [i \in 1..Len(tasks) |->
                      IF tasks[i].pc # "done"
                      THEN [tasks[i] EXCEPT !.chunks = Append(@, chunk)]
                      ELSE tasks[i]]
       /\ files' = files \cup {chunkFile}
       /\ UNCHANGED <<isProcessing, unlinkCalled>>

\* the speech path deleting the chunk file it has just queued
SpeechBranch_Unlinks(chunkFile, startTime) ==
    /\ pendingChunks' = Append(pendingChunks,
           [file |-> chunkFile, startTime |-> startTime,
            duration |-> CHUNK_DURATION_SECS * 1000, hasSpeech |-> TRUE])
    /\ Unlink(files \cup {chunkFile}, {chunkFile})
    /\ UNCHANGED <<isProcessing, tasks>>

SpeechBranch(chunkFile, startTime) ==
    /\ pendingChunks' = Append(pendingChunks,
           [file |-> chunkFile, startTime |-> startTime,
            duration |-> CHUNK_DURATION_SECS * 1000, hasSpeech |-> TRUE])
    /\ files' = files \cup {chunkFile}
    /\ UNCHANGED <<isProcessing, tasks, unlinkCalled>>

\* the music path leaving a chunk it does not merge on disk
MusicBranch_KeepFile(chunkFile) ==
    IF MusicMergeGuard
    THEN /\ MusicDrain(chunkFile)
         /\ files' = files \cup {chunkFile}
         /\ UNCHANGED unlinkCalled
    ELSE /\ files' = files \cup {chunkFile}
         /\ UNCHANGED <<pendingChunks, isProcessing, tasks, unlinkCalled>>

MusicBranch(chunkFile) ==
    IF MusicMergeGuard
    THEN /\ MusicDrain(chunkFile)
         /\ files' = files \cup {chunkFile}
         /\ UNCHANGED unlinkCalled
    ELSE /\ Unlink(files \cup {chunkFile}, {chunkFile})
         /\ UNCHANGED <<pendingChunks, isProcessing, tasks>>

processCompletedChunk(chunkFile, startTime, buffer) ==
    LET endTime == startTime + CHUNK_DURATION_SECS * 1000
        hasSpeech == chunkHasSpeech(buffer, startTime, endTime)
    IN /\ delivered' = Append(delivered,
                              [file |-> chunkFile, hasSpeech |-> hasSpeech])
       /\ IF hasSpeech
          THEN SpeechBranch(chunkFile, startTime)
          ELSE MusicBranch(chunkFile)

\* The handler reads the buffer only through chunkHasSpeech: buffers that
\* classify the chunk alike lead to the same step, so one of each is taken.
OnePerClass(startMs) ==
    LET endMs == startMs + CHUNK_DURATION_SECS * 1000
        all == MetadataBuffers(startMs)
    IN { CHOOSE b \in all : chunkHasSpeech(b, startMs, endMs) = v :
           v \in { chunkHasSpeech(b, startMs, endMs) : b \in all } }

\* The segment-start handler hands over the next completed chunk file of
\* its sorted directory scan; the file is on disk when it is handed over.
ChunkArrival ==
    \E chunkFile \in ChunkFiles :
        /\ \A i \in 1..Len(delivered) : delivered[i].file < chunkFile
        /\ ParseSegmentStart(chunkFile) <= now
        /\ \E buffer \in OnePerClass(ParseSegmentStart(chunkFile)) :
               processCompletedChunk(chunkFile,
                                     ParseSegmentStart(chunkFile), buffer)
        /\ UNCHANGED <<now, audio, records, index>>

\* ------------------------------------------------------ idle-flush timer
\* the idle path firing already at the threshold
IdleMergeGuard_AtThreshold(dateNow) ==
    /\ Len(pendingChunks) > 0 /\ ~isProcessing
    /\ LET lastChunk == Last(pendingChunks)
           idleTime == dateNow - lastChunk.startTime
                           - CHUNK_DURATION_SECS * 1000
       IN idleTime >= IDLE_THRESHOLD_MS

IdleMergeGuard(dateNow) ==
    /\ Len(pendingChunks) > 0 /\ ~isProcessing
    /\ LET lastChunk == Last(pendingChunks)
           idleTime == dateNow - lastChunk.startTime
                           - CHUNK_DURATION_SECS * 1000
       IN idleTime > IDLE_THRESHOLD_MS

\* the idle path without the swap to a fresh queue
IdleDrain_NoSwap ==
    /\ isProcessing' = TRUE
    /\ tasks' = Append(tasks, NewTask("idle", pendingChunks, {}))
    /\ pendingChunks' = pendingChunks

\* the idle path merging only the chunk it looked at
IdleDrain_LastOnly ==
    /\ isProcessing' = TRUE
    /\ tasks' = Append(tasks, NewTask("idle", <<Last(pendingChunks)>>, {}))
    /\ pendingChunks' = <<>>

IdleDrain ==
    /\ isProcessing' = TRUE
    /\ tasks' = Append(tasks, NewTask("idle", pendingChunks, {}))
    /\ pendingChunks' = <<>>

\* The clock may stop after MaxTicks periods unless a flush is still due.
ClockRuns == now < MaxTicks * IDLE_INTERVAL_MS
                \/ (Len(pendingChunks) > 0 /\ ~isProcessing)

IdleFlushTimer ==
    /\ ClockRuns
    /\ now' = now + IDLE_INTERVAL_MS
    /\ IF IdleMergeGuard(now')
       THEN IdleDrain
       ELSE UNCHANGED <<pendingChunks, isProcessing, tasks>>
    /\ UNCHANGED <<delivered, files, unlinkCalled, audio, records, index>>

\* ------------------------------------------------------- merge pipeline
\* the music chunk deleted inside the try block, after the merge
MusicTail_DeleteInTry(i) ==
    /\ isProcessing' = FALSE
    /\ IF tasks'[i].error = "none"
       THEN Unlink(files, tasks[i].musicFile)
       ELSE UNCHANGED <<files, unlinkCalled>>

\* after the try/catch of the music path: clear the flag, delete the chunk
MusicTail(i) ==
    /\ isProcessing' = FALSE
    /\ Unlink(files, tasks[i].musicFile)

\* the flag cleared inside the try block, after the merge
IdleTail_ClearInTry(i) ==
    /\ isProcessing' = (tasks'[i].error # "none")
    /\ UNCHANGED <<files, unlinkCalled>>

\* after the try/catch of the idle path: clear the flag
IdleTail(i) ==
    /\ isProcessing' = FALSE
    /\ UNCHANGED <<files, unlinkCalled>>

MergeTail(i) ==
    IF tasks[i].trigger = "music" THEN MusicTail(i) ELSE IdleTail(i)

\* a failed merge handing its chunks back to the queue
MergeThrows_Requeue(i, step) ==
    /\ tasks' = [tasks EXCEPT ![i].pc = "done", ![i].error = step]
    /\ MergeTail(i)
    /\ pendingChunks' = tasks[i].chunks \o pendingChunks
    /\ UNCHANGED <<audio, records, index>>

\* an awaited step of task i rejects: catch, log, then the caller's tail
MergeThrows(i, step) ==
    /\ tasks' = [tasks EXCEPT ![i].pc = "done", ![i].error = step]
    /\ MergeTail(i)
    /\ UNCHANGED <<pendingChunks, audio, records, index>>

\* an awaited step of task i resolves and the task waits on the next one
Proceed(i, next) ==
    /\ tasks' = [tasks EXCEPT ![i].pc = next]
    /\ UNCHANGED <<pendingChunks, isProcessing>>

\* await fs.mkdir(broadcastDir, { recursive: true })
MkdirStep(i) ==
    /\ tasks[i].pc = "mkdir"
    /\ \/ /\ Proceed(i, "mergeAudioFiles")
          /\ UNCHANGED <<files, unlinkCalled, audio, records, index>>
       \/ MergeThrows(i, "mkdir")
    /\ UNCHANGED <<now, delivered>>

\* the concatenation consuming its inputs: the source chunks are gone once
\* the merged file is written
MergeAudioStep_MoveInputs(i) ==
    /\ tasks[i].pc = "mergeAudioFiles"
    /\ \/ /\ ChunkFileSet(tasks[i].chunks) \subseteq files
          /\ audio' = { a \in audio : a.id # TaskId(i) } \cup
                      { [id |-> TaskId(i),
                         inputPaths |-> ChunkPaths(tasks[i].chunks)] }
          /\ Proceed(i, "transcribeAudio")
          /\ files' = files \ ChunkFileSet(tasks[i].chunks)
          /\ UNCHANGED <<unlinkCalled, records, index>>
       \/ MergeThrows(i, "mergeAudioFiles")
    /\ UNCHANGED <<now, delivered>>

\* await mergeAudioFiles(chunkPaths, audioFile)
MergeAudioStep(i) ==
    /\ tasks[i].pc = "mergeAudioFiles"
    /\ \/ /\ ChunkFileSet(tasks[i].chunks) \subseteq files
          /\ audio' = { a \in audio : a.id # TaskId(i) } \cup
                      { [id |-> TaskId(i),
                         inputPaths |-> ChunkPaths(tasks[i].chunks)] }
          /\ Proceed(i, "transcribeAudio")
          /\ UNCHANGED <<files, unlinkCalled, records, index>>
       \/ MergeThrows(i, "mergeAudioFiles")
    /\ UNCHANGED <<now, delivered>>

\* await transcribeAudio(audioFile); the title and the record are built
\* from its result before the next await
TranscribeStep(i) ==
    /\ tasks[i].pc = "transcribeAudio"
    /\ \/ /\ tasks' = [tasks EXCEPT
                 ![i].pc = "writeFile",
                 ![i].transcript = TranscriptOf(ChunkPaths(tasks[i].chunks))]
          /\ UNCHANGED <<pendingChunks, isProcessing, files, unlinkCalled,
                         audio, records, index>>
       \/ MergeThrows(i, "transcribeAudio")
    /\ UNCHANGED <<now, delivered>>

\* await fs.writeFile(jsonFile, JSON.stringify(broadcast, null, 2))
WriteFileStep(i) ==
    /\ tasks[i].pc = "writeFile"
    /\ \/ /\ LET broadcast == MakeBroadcast(tasks[i].chunks,
                                            tasks[i].transcript)
             IN records' = { r \in records : r.id # broadcast.id }
                              \cup {broadcast}
          /\ Proceed(i, "unlink")
          /\ UNCHANGED <<files, unlinkCalled, audio, index>>
       \/ MergeThrows(i, "writeFile")
    /\ UNCHANGED <<now, delivered>>

\* for (const chunk of chunks) await fs.unlink(chunk.file).catch(() => {});
\* mergeBroadcast returns and updateLiveIndex is called
\* the deletion of the source chunks without its catch: a failed unlink
\* rejects the merge
UnlinkStep_Throws(i) ==
    /\ tasks[i].pc = "unlink"
    /\ \/ /\ Unlink(files, ChunkFileSet(tasks[i].chunks))
          /\ files' \cap ChunkFileSet(tasks[i].chunks) = {}
          /\ Proceed(i, "updateLiveIndex")
          /\ UNCHANGED <<audio, records, index>>
       \/ /\ Cardinality(UnlinkFailures) < MaxUnlinkFailures
          /\ MergeThrows(i, "unlink")
    /\ UNCHANGED <<now, delivered>>

UnlinkStep(i) ==
    /\ tasks[i].pc = "unlink"
    /\ Unlink(files, ChunkFileSet(tasks[i].chunks))
    /\ Proceed(i, "updateLiveIndex")
    /\ UNCHANGED <<now, delivered, audio, records, index>>

\* await updateLiveIndex(liveDir), then the caller's tail
UpdateIndexStep(i) ==
    /\ tasks[i].pc = "updateLiveIndex"
    /\ \/ /\ index' = SortDescending(records)
          /\ tasks' = [tasks EXCEPT ![i].pc = "done"]
          /\ MergeTail(i)
          /\ UNCHANGED <<pendingChunks, audio, records>>
       \/ MergeThrows(i, "updateLiveIndex")
    /\ UNCHANGED <<now, delivered>>

MergeStep ==
    \E i \in 1..Len(tasks) :
        \/ MkdirStep(i)
        \/ MergeAudioStep(i)
        \/ TranscribeStep(i)
        \/ WriteFileStep(i)
        \/ UnlinkStep(i)
        \/ UpdateIndexStep(i)

\* a step of the assembler: recorder and poller state stay as they are
AssemblerOnly ==
    UNCHANGED <<recVars, metaVars, lastSamples, startVars, libVars>>

Next ==
    \/ ChunkArrival /\ AssemblerOnly
    \/ IdleFlushTimer /\ AssemblerOnly
    \/ MergeStep /\ AssemblerOnly

Spec == Init /\ [][Next]_vars

\* The timer keeps firing and every awaited step of a merge settles.
LiveSpec == Spec /\ WF_vars(IdleFlushTimer /\ AssemblerOnly)
                 /\ WF_vars(MergeStep /\ AssemblerOnly)

\* ============================================================== recorder
\* startRecording, the handlers it registers on the capture subprocess and
\* the watchdog.  Time advances to whatever is due next: a timer, or the
\* next segment of a running instance.  Events that are not scheduled (an
\* exit, a stall, the delivery of stderr data) happen at the current time.

\* the chunk file an earlier run of the service left in the chunk
\* directory
LeftoverFiles == {0 - CHUNK_DURATION_SECS}

Range(s) == { s[i] : i \in 1..Len(s) }

\* Array.prototype.sort on the fixed-width file names: by start time
RECURSIVE SortAscending(_)
SortAscending(S) ==
    IF S = {} THEN <<>>
    ELSE LET least == CHOOSE f \in S : \A g \in S : f <= g
         IN <<least>> \o SortAscending(S \ {least})

\* what a spawn leads to: the instance never runs, it records the stream,
\* or it runs and the stream never delivers
SpawnOutcomes == {"failed", "recording", "stalled"}

\* spawn("ffmpeg", ...) at time t
\* status: running, dying (SIGKILL delivered), failed (never ran), exited
\* error: none, pending ('error' queued for the handler), seen
\* unread: the segment-start lines written to stderr and not yet read
\* nextOpen: when the instance opens its next segment file ({}: stalled)
\* activity: when it was spawned or its latest segment start was observed
NewProcess(outcome, t) ==
    [status |-> IF outcome = "failed" THEN "failed" ELSE "running",
     error |-> IF outcome = "failed" THEN "pending" ELSE "none",
     unread |-> <<>>,
     nextOpen |-> IF outcome = "recording" THEN {t} ELSE {},
     activity |-> t]

Alive == { p \in 1..Len(procs) : procs[p].status \in {"running", "dying"} }

\* exit and error events handled so far
EventsHandled(ps) ==
    Cardinality({ p \in 1..Len(ps) : ps[p].status = "exited" })
        + Cardinality({ p \in 1..Len(ps) : ps[p].error = "seen" })

\* chunk files created since the service started (the assembler deletes
\* only files it was handed, and no later scan would hand those over)
Opened == files \ LeftoverFiles

startRecording(t) ==
    /\ lastChunkTime' = t
    /\ \E outcome \in SpawnOutcomes :
           procs' = Append(procs, NewProcess(outcome, t))
    /\ ffmpegProcess' = {Len(procs) + 1}

\* The state after runService has called startRecording() and registered
\* the watchdog interval.
RecInit ==
    /\ now = 0
    /\ files = LeftoverFiles
    /\ AssemblerIdle
    /\ PollerIdle
    /\ ServiceRunning
    /\ LibraryIdle
    /\ completedSegments = {}
    /\ currentSegmentStart = {}
    /\ lastChunkTime = 0
    /\ ffmpegProcess = {1}
    /\ \E outcome \in SpawnOutcomes : procs = <<NewProcess(outcome, 0)>>
    /\ restartTimers = <<>>
    /\ watchdogDue = WATCHDOG_INTERVAL_MS
    /\ handed = <<>>
    /\ segmentEvents = 0

\* a step of the recorder
RecorderOnly ==
    UNCHANGED <<asmVars, metaVars, lastSamples, startVars, libVars>>

\* segment files ffmpeg is about to open: by due time
OpensDue ==
    IF Cardinality(Opened) < MaxChunks
    THEN UNION { procs[p].nextOpen :
                   p \in { q \in 1..Len(procs) : procs[q].status = "running" } }
    ELSE {}

WatchdogRuns == watchdogDue <= MaxTicks * WATCHDOG_INTERVAL_MS

\* due times of everything scheduled
Scheduled ==
    OpensDue \cup Range(restartTimers)
             \cup (IF WatchdogRuns THEN {watchdogDue} ELSE {})

IsNext(due) == due \in Scheduled /\ \A d \in Scheduled : due <= d

\* the scan handing over every other file of the directory again
NewlyCompleted_NoSkip(dir, segmentName) == dir \ {segmentName}

\* the scan looking only at the segment before the new one
NewlyCompleted_PreviousOnly(dir, segmentName) ==
    LET prevFiles == { f \in dir \ completedSegments : f < segmentName }
    IN { f \in prevFiles : \A g \in prevFiles : g <= f }

\* readdirSync(chunksDir) without the new segment, minus the files the
\* loop skips because completedSegments has them
NewlyCompleted(dir, segmentName) ==
    { prevFile \in dir \ {segmentName} : prevFile \notin completedSegments }

\* body of `if (match)` at time dateNow with dir in the chunk directory:
\* scan, hand over, then note the segment start
ObserveSegmentStart(segmentName, dateNow, dir) ==
    /\ IF currentSegmentStart # {} /\ segmentName \notin completedSegments
       THEN /\ completedSegments' =
                   completedSegments \cup NewlyCompleted(dir, segmentName)
            /\ handed' =
                   handed \o SortAscending(NewlyCompleted(dir, segmentName))
       ELSE UNCHANGED <<completedSegments, handed>>
    /\ currentSegmentStart' = {dateNow}
    /\ lastChunkTime' = dateNow
    /\ segmentEvents' = segmentEvents + 1

\* how the "Opening ... for writing" line of a new segment reaches the
\* stderr handler: read at once, cut in two by the data events so that
\* neither part matches, or held back and read with the next line
Deliveries == {"read", "split", "held"}

\* ffmpeg opens the next segment file, named after the current second, and
\* writes its line to stderr; the segment after it is due in 120 s unless
\* the stream stalls before.  The data event carries every line not read
\* yet, and line.match takes the first of them.
SegmentStart(p) ==
    /\ procs[p].status = "running"
    /\ \E due \in procs[p].nextOpen \cap OpensDue, how \in Deliveries :
           /\ IsNext(due)
           /\ now' = (IF due > now THEN due ELSE now)
           /\ files' = files \cup {now' \div 1000}
           /\ LET data == procs[p].unread \o
                            (IF how = "split" THEN <<>>
                                              ELSE <<now' \div 1000>>)
                  match == how # "held" /\ data # <<>>
              IN /\ \E next \in {{now' + CHUNK_DURATION_SECS * 1000}, {}} :
                        procs' = [procs EXCEPT
                            ![p].nextOpen = next,
                            ![p].unread = IF how = "held" THEN data ELSE <<>>,
                            ![p].activity = IF match THEN now' ELSE @]
                 /\ IF match
                    THEN ObserveSegmentStart(Head(data), now', files')
                    ELSE UNCHANGED <<completedSegments, handed,
                                     currentSegmentStart, lastChunkTime,
                                     segmentEvents>>
    /\ UNCHANGED <<ffmpegProcess, restartTimers, watchdogDue>>

\* the restart scheduled without a delay
ScheduleRestart_NoTimer ==
    /\ ffmpegProcess' = {}
    /\ restartTimers' = restartTimers

\* body of both the exit and the error handler
ScheduleRestart ==
    /\ ffmpegProcess' = {}
    /\ restartTimers' = Append(restartTimers, now + RESTART_DELAY_MS)

\* events are taken only while the restart they schedule can still spawn
SpawnBudget == Len(procs) + Len(restartTimers) < MaxSpawns

\* ffmpeg.on("exit"): the instance ended by itself or was killed, or its
\* spawn failed and the exit event follows the error event
ExitEvent(p) ==
    /\ SpawnBudget
    /\ \/ procs[p].status \in {"running", "dying"}
       \/ procs[p].status = "failed" /\ procs[p].error = "seen"
    /\ procs' = [procs EXCEPT ![p].status = "exited"]
    /\ ScheduleRestart
    /\ UNCHANGED <<now, files, completedSegments, currentSegmentStart,
                   lastChunkTime, watchdogDue, handed, segmentEvents>>

\* ffmpeg.on("error"): the spawn or a kill failed
ErrorEvent(p) ==
    /\ SpawnBudget
    /\ procs[p].error = "pending"
    /\ procs' = [procs EXCEPT ![p].error = "seen"]
    /\ ScheduleRestart
    /\ UNCHANGED <<now, files, completedSegments, currentSegmentStart,
                   lastChunkTime, watchdogDue, handed, segmentEvents>>

\* setTimeout(startRecording, 5000) fires; timers fire in time order
RestartTimer ==
    /\ restartTimers # <<>>
    /\ IsNext(Head(restartTimers))
    /\ now' = IF Head(restartTimers) > now THEN Head(restartTimers) ELSE now
    /\ startRecording(now')
    /\ restartTimers' = Tail(restartTimers)
    /\ UNCHANGED <<files, completedSegments, currentSegmentStart,
                   watchdogDue, handed, segmentEvents>>

\* ffmpegProcess.kill('SIGKILL'): the signal ends a running instance, or
\* it cannot be delivered and the instance emits 'error'
Kill(p) ==
    IF procs[p].status = "running"
    THEN \/ procs' = [procs EXCEPT ![p].status = "dying"]
         \/ /\ procs[p].error = "none"
            /\ procs' = [procs EXCEPT ![p].error = "pending"]
    ELSE UNCHANGED procs

WatchdogGuard(dateNow) ==
    LET staleTime == dateNow - lastChunkTime
    IN staleTime > STALE_THRESHOLD_MS /\ ffmpegProcess # {}

WatchdogTimer ==
    /\ WatchdogRuns
    /\ IsNext(watchdogDue)
    /\ now' = watchdogDue
    /\ watchdogDue' = watchdogDue + WATCHDOG_INTERVAL_MS
    /\ IF WatchdogGuard(now')
       THEN \E p \in ffmpegProcess : Kill(p)
       ELSE UNCHANGED procs
    /\ UNCHANGED <<files, completedSegments, currentSegmentStart,
                   lastChunkTime, ffmpegProcess, restartTimers, handed,
                   segmentEvents>>

RecNext ==
    \/ (\E p \in 1..Len(procs) : SegmentStart(p)) /\ RecorderOnly
    \/ (\E p \in 1..Len(procs) : ExitEvent(p)) /\ RecorderOnly
    \/ (\E p \in 1..Len(procs) : ErrorEvent(p)) /\ RecorderOnly
    \/ RestartTimer /\ RecorderOnly
    \/ WatchdogTimer /\ RecorderOnly

RecSpec == RecInit /\ [][RecNext]_vars

\* Time passes: whatever is due next happens.
RecLiveSpec ==
    RecSpec /\ WF_vars(RestartTimer /\ RecorderOnly)
            /\ WF_vars(WatchdogTimer /\ RecorderOnly)
            /\ WF_vars((\E p \in 1..Len(procs) : SegmentStart(p))
                          /\ RecorderOnly)

\* ======================================================= metadata poller
\* startMetadataPoller: the interval callback starts a fetch and, when the
\* fetch has settled, reads the clock, pushes a sample and evicts.

NoTitle == "null"

\* fetch or res.json() throws
FetchError == [ok |-> FALSE, artist |-> "", title |-> ""]

\* what the metadata endpoint answers: a song, or a programme without
\* artist (the field is empty); or the fetch fails
Responses ==
    [ok : {TRUE}, artist : {"artist", ""}, title : {"title"}]
        \cup {FetchError}

\* v || null
OrNull(v) == IF v = "" THEN "null" ELSE v

\* the fetch failure left uncaught: the callback ends without a value
fetchMetadata_NoCatch(response) ==
    IF ~response.ok THEN <<>>
    ELSE <<[artist |-> OrNull(response.artist),
            title |-> OrNull(response.title)]>>

\* the value fetchMetadata resolves with, as a one-element sequence
fetchMetadata(response) ==
    IF ~response.ok
    THEN <<[artist |-> NoArtist, title |-> NoTitle]>>
    ELSE <<[artist |-> OrNull(response.artist),
            title |-> OrNull(response.title)]>>

\* the clock read before the await
ReadClock_BeforeAwait(i, dateNow) == polls[i].startedAt

\* const now = Date.now(), after the await, in the callback of poll i
ReadClock(i, dateNow) == dateNow

\* while (buffer.length > 0 && buffer[0].timestamp < cutoff) buffer.shift()
RECURSIVE Evict(_, _)
Evict(buffer, cutoff) ==
    IF buffer # <<>> /\ Head(buffer).timestamp < cutoff
    THEN Evict(Tail(buffer), cutoff)
    ELSE buffer

SettledPolls == { i \in 1..Len(polls) : polls[i].state = "done" }

PollerOnly ==
    UNCHANGED <<files, asmVars, recVars, lastSamples, startVars, libVars>>

\* the setInterval callback runs up to its await: poll i is fetching
PollTimer ==
    /\ Len(polls) < MaxPolls
    /\ now' = now + POLL_INTERVAL_MS
    /\ polls' = Append(polls, [state |-> "fetching", startedAt |-> now',
                               failed |-> FALSE, rank |-> 0])
    /\ UNCHANGED <<metadataBuffer, lastMetaStatus>>

\* the fetch of poll i has settled with response: the rest of the callback
FetchSettles(i, response) ==
    /\ polls[i].state = "fetching"
    /\ polls' = [polls EXCEPT ![i].state = "done",
                              ![i].failed = ~response.ok,
                              ![i].rank = Cardinality(SettledPolls) + 1]
    /\ LET metas == fetchMetadata(response)
           dateNow == ReadClock(i, now)
           cutoff == dateNow - RETENTION_MS
       IN IF metas = <<>>
          THEN UNCHANGED <<metadataBuffer, lastMetaStatus>>
          ELSE LET meta == Head(metas)
               IN /\ metadataBuffer' =
                        Evict(Append(metadataBuffer,
                                     [timestamp |-> dateNow,
                                      artist |-> meta.artist,
                                      title |-> meta.title]), cutoff)
                  /\ lastMetaStatus' = IF meta.artist # NoArtist
                                       THEN "music" ELSE "speech"
    /\ UNCHANGED now

\* the service does not run for the length of the retention window (the
\* host sleeps, the process is stopped): the wall clock moves on and no
\* callback runs.  The wall clock never goes back.
Suspend ==
    /\ now < 2 * RETENTION_MS
    /\ now' = now + RETENTION_MS
    /\ UNCHANGED metaVars

MetaNext ==
    \/ PollTimer /\ PollerOnly
    \/ (\E i \in 1..Len(polls), response \in Responses :
            FetchSettles(i, response)) /\ PollerOnly
    \/ Suspend /\ PollerOnly

MetaSpec == Init /\ [][MetaNext]_vars

\* ------------------------------------------------------------ runService
\* the process has been started, with or without the credential
StartInit ==
    /\ now = 0
    /\ files = {}
    /\ AssemblerIdle
    /\ RecorderIdle
    /\ PollerIdle
    /\ LibraryIdle
    /\ groqApiKey \in BOOLEAN
    /\ service = "starting"
    /\ exitCode = {}
    /\ intervals = {}

\* runService going on to its set-up whether the credential is there or not
RunService_NoCheck ==
    /\ service = "starting"
    /\ service' = "mkdir"
    /\ UNCHANGED <<now, files, asmVars, recVars, metaVars, lastSamples,
                   libVars, groqApiKey, exitCode, intervals>>

\* runService up to its first await: the banner, then the credential check
RunService ==
    /\ service = "starting"
    /\ IF ~groqApiKey
       THEN service' = "exited" /\ exitCode' = {1}
       ELSE service' = "mkdir" /\ UNCHANGED exitCode
    /\ UNCHANGED <<now, files, asmVars, recVars, metaVars, lastSamples,
                   libVars, groqApiKey, intervals>>

\* the rest of runService once the directories exist: the poller, the
\* first capture subprocess, the watchdog and the idle-flush timer; or a
\* mkdir rejects and the rejection, which nothing handles, ends the process
ServiceSetup ==
    /\ service = "mkdir"
    /\ \/ /\ service' = "running"
          /\ intervals' = {"poll", "watchdog", "idle"}
          /\ startRecording(now)
          /\ UNCHANGED exitCode
       \/ /\ service' = "exited"
          /\ exitCode' = {1}
          /\ UNCHANGED <<intervals, lastChunkTime, procs, ffmpegProcess>>
    /\ UNCHANGED <<now, files, asmVars, metaVars, lastSamples, libVars,
                   groqApiKey, completedSegments, currentSegmentStart,
                   restartTimers, watchdogDue, handed, segmentEvents>>

\* the poll interval is armed and the process lives
PollerArmed == service = "running" /\ "poll" \in intervals

StartNext ==
    \/ RunService
    \/ ServiceSetup
    \/ PollerArmed /\ PollTimer /\ PollerOnly
    \/ PollerArmed /\ (\E i \in 1..Len(polls), response \in Responses :
                           FetchSettles(i, response)) /\ PollerOnly
    \/ PollerArmed /\ Suspend /\ PollerOnly

StartSpec == StartInit /\ [][StartNext]_vars

\* getChunkSpeechRatio counting the samples with an artist
getChunkSpeechRatio_Music(buffer, startMs, endMs) ==
    LET samples == SelectSamples(buffer, startMs, endMs)
        speechSamples == SelectSeq(samples, LAMBDA x : x.artist # NoArtist)
    IN IF Len(samples) = 0 THEN [num |-> 0, den |-> 1]
       ELSE [num |-> Len(speechSamples), den |-> Len(samples)]

\* the number getChunkSpeechRatio returns, as the fraction num / den
getChunkSpeechRatio(buffer, startMs, endMs) ==
    LET samples == SelectSamples(buffer, startMs, endMs)
        speechSamples == SelectSeq(samples, LAMBDA x : x.artist = NoArtist)
    IN IF Len(samples) = 0 THEN [num |-> 0, den |-> 1]
       ELSE [num |-> Len(speechSamples), den |-> Len(samples)]

\* ================================================ observed classification
\* The assembler, with the number of samples each classification saw.

\* one buffer for each way a chunk can be classified: speech, music, and
\* no sample in range
OnePerSampleClass(startMs) ==
    LET endMs == startMs + CHUNK_DURATION_SECS * 1000
        all == MetadataBuffers(startMs)
        class(b) == <<chunkHasSpeech(b, startMs, endMs),
                      Len(SelectSamples(b, startMs, endMs)) = 0>>
    IN { CHOOSE b \in all : class(b) = c : c \in { class(b) : b \in all } }

ObservedChunkArrival ==
    \E chunkFile \in ChunkFiles :
        /\ \A i \in 1..Len(delivered) : delivered[i].file < chunkFile
        /\ ParseSegmentStart(chunkFile) <= now
        /\ \E buffer \in OnePerSampleClass(ParseSegmentStart(chunkFile)) :
               /\ processCompletedChunk(chunkFile,
                                        ParseSegmentStart(chunkFile), buffer)
               /\ lastSamples' =
                      Len(SelectSamples(buffer, ParseSegmentStart(chunkFile),
                                        ParseSegmentStart(chunkFile)
                                            + CHUNK_DURATION_SECS * 1000))
        /\ UNCHANGED <<now, audio, records, index>>

ObservedNext ==
    \/ ObservedChunkArrival
          /\ UNCHANGED <<recVars, metaVars, startVars, libVars>>
    \/ IdleFlushTimer /\ AssemblerOnly
    \/ MergeStep /\ AssemblerOnly

ObservedSpec == Init /\ [][ObservedNext]_vars

\* -------------------------------------------- updateLiveIndex, updateIndex
\* What a directory entry holds: a plain file, or a directory whose record
\* file is absent, is not JSON, is JSON without a timestamp, or is a record
\* with one of two timestamps.
EntryKinds ==
    [isDirectory : {FALSE}, json : {"absent"}, timestamp : {{}}]
      \cup [isDirectory : {TRUE}, json : {"absent", "unparsable"},
            timestamp : {{}}]
      \cup [isDirectory : {TRUE}, json : {"parsed"},
            timestamp : {{}, {toISOString(0)},
                         {toISOString(CHUNK_DURATION_SECS * 1000)}}]

\* the loop over the entries: the records pushed, in readdir order
RECURSIVE ReadRecords(_, _)
ReadRecords(entries, k) ==
    IF k > Len(entries) THEN <<>>
    ELSE (IF entries[k].isDirectory /\ entries[k].json = "parsed"
          THEN <<[id |-> k, timestamp |-> entries[k].timestamp]>>
          ELSE <<>>) \o ReadRecords(entries, k + 1)

HasTimestamp(broadcast) == broadcast.timestamp # {}

TimestampKey(broadcast) ==
    IsoKey(CHOOSE iso \in broadcast.timestamp : TRUE)

\* Array.prototype.sort with (a, b) => b.timestamp.localeCompare(a.timestamp)
\* on records that all have a timestamp: descending, stable
RECURSIVE StableSortDescending(_)
StableSortDescending(broadcasts) ==
    IF broadcasts = <<>> THEN <<>>
    ELSE LET top == CHOOSE i \in 1..Len(broadcasts) :
                        /\ \A j \in 1..Len(broadcasts) :
                               TimestampKey(broadcasts[j])
                                   <= TimestampKey(broadcasts[i])
                        /\ \A j \in 1..(i - 1) :
                               TimestampKey(broadcasts[j])
                                   < TimestampKey(broadcasts[i])
         IN <<broadcasts[top]>> \o StableSortDescending(
                [j \in 1..(Len(broadcasts) - 1) |->
                    IF j < top THEN broadcasts[j] ELSE broadcasts[j + 1]])

\* The outcomes of the sort. The comparator reads b.timestamp.localeCompare:
\* a call whose b has no timestamp throws a TypeError, a call whose a has
\* none compares against "undefined" and puts a first. Which record of a
\* pair is passed as b is up to the engine; a list of one is not compared.
SortOutcomes(broadcasts) ==
    LET dated == SelectSeq(broadcasts, HasTimestamp)
        undated == SelectSeq(broadcasts, LAMBDA b : ~HasTimestamp(b))
        sorted == [threw |-> FALSE,
                   manifest |-> undated \o StableSortDescending(dated)]
    IN IF undated = <<>> \/ Len(broadcasts) <= 1 THEN {sorted}
       ELSE {sorted, [threw |-> TRUE, manifest |-> <<>>]}

\* an index rebuild about to run over some directory
IndexInit ==
    /\ now = 0
    /\ files = {}
    /\ AssemblerIdle
    /\ RecorderIdle
    /\ PollerIdle
    /\ ServiceRunning
    /\ TranscriberIdle
    /\ TitleIdle
    /\ ScraperIdle
    /\ liveDir \in UNION { [1..n -> EntryKinds] : n \in 0..MaxEntries }
    /\ rebuild = "idle"

IndexerOnly ==
    UNCHANGED <<now, files, pendingChunks, isProcessing, tasks, delivered,
                unlinkCalled, audio, records, recVars, metaVars, lastSamples,
                startVars, trVars, titleVars, scrVars, liveDir>>

\* updateLiveIndex(liveDir) from readdir to writeFile
updateLiveIndex ==
    /\ rebuild = "idle"
    /\ \E outcome \in SortOutcomes(ReadRecords(liveDir, 1)) :
           IF outcome.threw
           THEN rebuild' = "sort threw" /\ UNCHANGED index
           ELSE rebuild' = "written" /\ index' = outcome.manifest

\* readdir or writeFile rejects
IndexIoFails ==
    /\ rebuild = "idle"
    /\ rebuild' = "io failed"
    /\ UNCHANGED index

IndexNext ==
    \/ updateLiveIndex /\ IndexerOnly
    \/ IndexIoFails /\ IndexerOnly

IndexSpec == IndexInit /\ [][IndexNext]_vars

\* -------------------------------------------------------- transcribeAudio
\* The transcription service reports seconds as fractions; the model counts
\* them in half milliseconds, so that rounding to milliseconds shows.
HalfMs == {1, 3}

\* Math.round(x * 1000) for x >= 0 given in half milliseconds
RoundMs(halfMs) == (halfMs + 1) \div 2

\* String.prototype.trim
RECURSIVE TrimEnd(_)
TrimEnd(text) ==
    IF text # <<>> /\ Last(text) \in Whitespace
    THEN TrimEnd(SubSeq(text, 1, Len(text) - 1)) ELSE text

Trim(text) ==
    TrimEnd(SubSeq(text, SkipWhitespace(text, 1), Len(text)))

\* a segment as the service reports it
ReportedSegments == [start : HalfMs, end : HalfMs, text : {<<" ", "a">>}]

RECURSIVE SumCounts(_)
SumCounts(counts) ==
    IF counts = <<>> THEN 0 ELSE Head(counts) + SumCounts(Tail(counts))

\* the answers of transcribeChunk for n files with counts[k] segments in
\* the k-th, cut from one list of segments
ResultsOf(durations, counts, segments) ==
    [k \in 1..Len(counts) |->
        [duration |-> durations[k],
         segments |-> SubSeq(segments,
                             SumCounts(SubSeq(counts, 1, k - 1)) + 1,
                             SumCounts(SubSeq(counts, 1, k)))]]

\* transcribeAudio called on a file: one answer for a file within the
\* size limit, one per sub-file for an oversized one
TranscribeInit ==
    /\ now = 0
    /\ files = {}
    /\ AssemblerIdle
    /\ RecorderIdle
    /\ PollerIdle
    /\ ServiceRunning
    /\ TitleIdle
    /\ IndexerIdle
    /\ ScraperIdle
    /\ fileSize \in {MAX_FILE_SIZE, MAX_FILE_SIZE + 1}
    /\ \E n \in 1..MaxSubFiles :
         \E counts \in [1..n -> 0..MaxSegments] :
           /\ fileSize <= MAX_FILE_SIZE => n = 1
           /\ SumCounts(counts) <= MaxSegments
           /\ \E durations \in [1..n -> HalfMs],
                 segments \in [1..SumCounts(counts) -> ReportedSegments] :
                  chunkResults = ResultsOf(durations, counts, segments)
    /\ chunkCursor = 0
    /\ timeOffsetMs = 0
    /\ allSegments = <<>>
    /\ transcribePc = "start"

TranscribeOnly ==
    UNCHANGED <<now, files, asmVars, recVars, metaVars, lastSamples,
                startVars, titleVars, idxVars, scrVars, fileSize,
                chunkResults>>

\* fileSize <= MAX_FILE_SIZE: the one answer, converted
TranscribeSmall ==
    /\ transcribePc = "start"
    /\ fileSize <= MAX_FILE_SIZE
    /\ LET result == chunkResults[1]
       IN allSegments' =
              [m \in 1..Len(result.segments) |->
                  [start |-> RoundMs(result.segments[m].start),
                   end |-> RoundMs(result.segments[m].end),
                   text |-> Trim(result.segments[m].text)]]
    /\ transcribePc' = "returned"
    /\ UNCHANGED <<chunkCursor, timeOffsetMs>>

\* the file is oversized: mkdtemp and splitAudioFile, then the loop
TranscribeSplit ==
    /\ transcribePc = "start"
    /\ fileSize > MAX_FILE_SIZE
    /\ transcribePc' = "loop"
    /\ UNCHANGED <<chunkCursor, timeOffsetMs, allSegments>>

\* the loop body pushing the segments as reported, without the offset
TranscribeSubFile_NoOffset ==
    /\ transcribePc = "loop"
    /\ chunkCursor < Len(chunkResults)
    /\ LET result == chunkResults[chunkCursor + 1]
       IN /\ allSegments' = allSegments \o
                 [m \in 1..Len(result.segments) |->
                     [start |-> RoundMs(result.segments[m].start),
                      end |-> RoundMs(result.segments[m].end),
                      text |-> Trim(result.segments[m].text)]]
          /\ timeOffsetMs' = timeOffsetMs + RoundMs(result.duration)
    /\ chunkCursor' = chunkCursor + 1
    /\ UNCHANGED transcribePc

\* one run of the loop body: the answer for sub-file i has arrived
TranscribeSubFile ==
    /\ transcribePc = "loop"
    /\ chunkCursor < Len(chunkResults)
    /\ LET result == chunkResults[chunkCursor + 1]
       IN /\ allSegments' = allSegments \o
                 [m \in 1..Len(result.segments) |->
                     [start |-> RoundMs(result.segments[m].start)
                                   + timeOffsetMs,
                      end |-> RoundMs(result.segments[m].end) + timeOffsetMs,
                      text |-> Trim(result.segments[m].text)]]
          /\ timeOffsetMs' = timeOffsetMs + RoundMs(result.duration)
    /\ chunkCursor' = chunkCursor + 1
    /\ UNCHANGED transcribePc

\* the loop is through: return allSegments (finally removes the temp dir)
TranscribeReturn ==
    /\ transcribePc = "loop"
    /\ chunkCursor = Len(chunkResults)
    /\ transcribePc' = "returned"
    /\ UNCHANGED <<chunkCursor, timeOffsetMs, allSegments>>

\* the split or a transcribeChunk call rejects: transcribeAudio rejects
TranscribeThrows ==
    /\ \/ transcribePc = "start"
       \/ transcribePc = "loop" /\ chunkCursor < Len(chunkResults)
    /\ transcribePc' = "thrown"
    /\ UNCHANGED <<chunkCursor, timeOffsetMs, allSegments>>

TranscribeNext ==
    \/ TranscribeSmall /\ TranscribeOnly
    \/ TranscribeSplit /\ TranscribeOnly
    \/ TranscribeSubFile /\ TranscribeOnly
    \/ TranscribeReturn /\ TranscribeOnly
    \/ TranscribeThrows /\ TranscribeOnly

TranscribeSpec == TranscribeInit /\ [][TranscribeNext]_vars

\* ---------------------------------------------------------- generateTitle
\* texts of a transcript segment: words of the letter a and whitespace,
\* trimmed or not
SegmentTexts ==
    UNION { [1..n -> {"a"} \cup Whitespace] : n \in 0..MaxTextLen }

TitleInputs ==
    UNION { [1..n -> [start : {0}, end : {0}, text : SegmentTexts]] :
              n \in 0..MaxTitleSegments }

\* a call of generateTitle about to be made on some transcript
TitleInit ==
    /\ now = 0
    /\ files = {}
    /\ AssemblerIdle
    /\ RecorderIdle
    /\ PollerIdle
    /\ ServiceRunning
    /\ lastSamples = 0
    /\ TranscriberIdle
    /\ IndexerIdle
    /\ ScraperIdle
    /\ titleSegments \in TitleInputs
    /\ titleMaxWords \in 0..MaxWordsArg
    /\ titleReturned = {}

CallGenerateTitle ==
    /\ titleReturned = {}
    /\ titleReturned' = {generateTitle(titleSegments, titleMaxWords)}
    /\ UNCHANGED <<now, files, asmVars, recVars, metaVars, lastSamples,
                   startVars, trVars, idxVars, scrVars, titleSegments,
                   titleMaxWords>>

TitleNext == CallGenerateTitle

TitleSpec == TitleInit /\ [][TitleNext]_vars

\* ======================================================= archive scraper
\* runScraperLoop, runScraperOnce, fetchEpisodes and processEpisode.  An
\* episode of the API carries its id, the two audio fields, its publication
\* day ({} when the field is no string) and the last non-empty segment of
\* the path of its link, as characters.

API_ENDPOINTS == <<"listen-back", "posts">>

Links == {<<>>, <<"a", "?">>, <<"a", "-">>}

\* episodes with audio in every shape, and of each id one episode for each
\* way of having none
APIEpisodes ==
    [id : 1..MaxEpisodeIds, has_audio : {TRUE}, audio_url : {"url"},
     date : {{}} \cup { {d} : d \in 1..MaxDays }, link : Links]
      \cup { e \in [id : 1..MaxEpisodeIds, has_audio : BOOLEAN,
                     audio_url : {"", "url"}, date : {{1}}, link : {<<>>}] :
                ~(e.has_audio /\ e.audio_url = "url") }

\* what JSON.parse(content) yields for one endpoint
EndpointResponses == UNION { [1..n -> APIEpisodes] : n \in 0..MaxResponseLen }

\* what the transcription service answers
Transcripts == {"t1", "t2"}

\* the characters [a-zA-Z0-9-]
SlugChars == {"a", "e", "-"}

\* slug.slice(0, 60).replace(/[^a-zA-Z0-9-]/g, "-")
SafeSlug(slug) ==
    [i \in 1..(IF Len(slug) < SLUG_MAX_LENGTH THEN Len(slug)
               ELSE SLUG_MAX_LENGTH) |->
        IF slug[i] \in SlugChars THEN slug[i] ELSE "-"]

\* const id = `${date}_${safeSlug}`, the slug falling back to the API id
EpisodeId(episode) ==
    LET date == CHOOSE d \in episode.date : TRUE
    IN IF episode.link = <<>>
       THEN [date |-> date, slug |-> SafeSlug(EpisodePrefix),
             wpId |-> episode.id]
       ELSE [date |-> date, slug |-> SafeSlug(episode.link), wpId |-> 0]

\* a record file cut short by a failed write
Truncated == [NoRecord EXCEPT !.json = "unparsable"]

\* the loop of fetchEpisodes over the episodes of one endpoint
RECURSIVE CollectEpisodes(_, _, _)
CollectEpisodes(all, seen, episodes) ==
    IF episodes = <<>> THEN [allEpisodes |-> all, seenIds |-> seen]
    ELSE LET ep == Head(episodes)
         IN IF ep.has_audio /\ ep.audio_url # "" /\ ep.id \notin seen
            THEN CollectEpisodes(Append(all, ep), seen \cup {ep.id},
                                 Tail(episodes))
            ELSE CollectEpisodes(all, seen, Tail(episodes))

\* a step of the scraper: everything else stays as it is
ScraperOnly ==
    UNCHANGED <<now, files, asmVars, recVars, metaVars, lastSamples,
                startVars, trVars, titleVars, idxVars>>

\* runScraperLoop wakes up and calls runScraperOnce: the health test and
\* the mkdir of the archive directory; a failed test returns, a rejected
\* mkdir is caught by the loop, and either way the loop sleeps again
StartRun ==
    /\ scraperPc = "sleeping"
    /\ runs < MaxRuns
    /\ runs' = runs + 1
    /\ \/ /\ scraperPc' = "fetchEpisodes"
          /\ endpoint' = 1
          /\ allEpisodes' = <<>>
          /\ seenIds' = {}
       \/ UNCHANGED <<scraperPc, endpoint, allEpisodes, seenIds>>
    /\ UNCHANGED <<archive, archiveIndex, episodeCursor, episodeTranscript,
                   episodeReturned, cfCookie>>

\* one turn of the loop over API_ENDPOINTS: the fetch and the parse, which
\* may throw into the catch of the turn, and the loop over the episodes;
\* fetchViaFlareSolverr caches the clearance cookie when the answer has one
FetchEndpoint ==
    /\ scraperPc = "fetchEpisodes"
    /\ \E clearance \in BOOLEAN : cfCookie' = (cfCookie \/ clearance)
    /\ \/ \E collected \in { CollectEpisodes(allEpisodes, seenIds, episodes) :
                                episodes \in EndpointResponses } :
              /\ allEpisodes' = collected.allEpisodes
              /\ seenIds' = collected.seenIds
       \/ UNCHANGED <<allEpisodes, seenIds>>
    /\ IF endpoint = Len(API_ENDPOINTS)
       THEN /\ scraperPc' = "loop"
            /\ episodeCursor' = 1
            /\ UNCHANGED endpoint
       ELSE /\ endpoint' = endpoint + 1
            /\ UNCHANGED <<scraperPc, episodeCursor>>
    /\ UNCHANGED <<archive, archiveIndex, episodeTranscript, episodeReturned,
                   runs>>

\* runScraperOnce returns or rejects into the catch of runScraperLoop: its
\* locals are gone and the loop sleeps
RunEnds ==
    /\ scraperPc' = "sleeping"
    /\ endpoint' = 1
    /\ allEpisodes' = <<>>
    /\ seenIds' = {}
    /\ episodeCursor' = 1
    /\ episodeReturned' = {}

\* the head of the loop over the episodes: the log line reads
\* episode.date.split(" ") outside the try block, then processEpisode is
\* called inside it
EpisodeLoop ==
    /\ scraperPc = "loop"
    /\ IF episodeCursor <= Len(allEpisodes)
          /\ allEpisodes[episodeCursor].date = {}
       THEN RunEnds
       ELSE /\ scraperPc' = (IF episodeCursor > Len(allEpisodes)
                             THEN "updateIndex" ELSE "processEpisode")
            /\ episodeReturned' = {}
            /\ UNCHANGED <<endpoint, allEpisodes, seenIds, episodeCursor>>
    /\ UNCHANGED <<archive, archiveIndex, episodeTranscript, cfCookie, runs>>

\* processEpisode is through: the loop goes on to the next episode
NextEpisode ==
    /\ scraperPc' = "loop"
    /\ episodeCursor' = episodeCursor + 1
    /\ episodeTranscript' = {}
    /\ UNCHANGED <<archiveIndex, endpoint, allEpisodes, seenIds, runs>>

\* an awaited step of processEpisode rejects: the catch of the loop logs
EpisodeThrows ==
    /\ NextEpisode
    /\ UNCHANGED episodeReturned

\* the record returned although it is missing or does not parse
CheckProcessed_Always ==
    /\ scraperPc = "processEpisode"
    /\ LET id == EpisodeId(allEpisodes[episodeCursor])
       IN /\ episodeReturned' = {archive[id]}
          /\ NextEpisode
    /\ UNCHANGED <<archive, cfCookie>>

\* if (fsSync.existsSync(jsonFile)) try { return JSON.parse(await
\* fs.readFile(jsonFile)) } catch {}: the record is returned when the read
\* resolves and its text parses, anything else falls through
CheckProcessed ==
    /\ scraperPc = "processEpisode"
    /\ LET id == EpisodeId(allEpisodes[episodeCursor])
       IN \/ /\ archive[id].json = "parsed"
             /\ episodeReturned' = {archive[id]}
             /\ NextEpisode
          \/ /\ scraperPc' = "mkdir"
             /\ UNCHANGED <<archiveIndex, endpoint, allEpisodes, seenIds,
                            episodeCursor, episodeTranscript, episodeReturned,
                            runs>>
    /\ UNCHANGED <<archive, cfCookie>>

\* await fs.mkdir(episodeDir, { recursive: true })
MkdirEpisode ==
    /\ scraperPc = "mkdir"
    /\ \/ /\ scraperPc' = "downloadAudio"
          /\ UNCHANGED <<archiveIndex, endpoint, allEpisodes, seenIds,
                         episodeCursor, episodeTranscript, episodeReturned,
                         runs>>
       \/ EpisodeThrows
    /\ UNCHANGED <<archive, cfCookie>>

\* await downloadAudio(episode.audio_url, audioFile): without a cookie the
\* first endpoint is fetched for one, then the audio is fetched and written
DownloadAudio ==
    /\ scraperPc = "downloadAudio"
    /\ \E clearance \in BOOLEAN : cfCookie' = (cfCookie \/ clearance)
    /\ \/ /\ scraperPc' = "transcribeAudio"
          /\ UNCHANGED <<archiveIndex, endpoint, allEpisodes, seenIds,
                         episodeCursor, episodeTranscript, episodeReturned,
                         runs>>
       \/ EpisodeThrows
    /\ UNCHANGED archive

\* const transcript = await transcribeAudio(audioFile)
TranscribeEpisode ==
    /\ scraperPc = "transcribeAudio"
    /\ \/ /\ \E transcript \in Transcripts :
                 episodeTranscript' = {transcript}
          /\ scraperPc' = "writeFile"
          /\ UNCHANGED <<archiveIndex, endpoint, allEpisodes, seenIds,
                         episodeCursor, episodeReturned, runs>>
       \/ EpisodeThrows
    /\ UNCHANGED <<archive, cfCookie>>

\* await fs.writeFile(jsonFile, JSON.stringify(result, null, 2)); return
\* result.  A write that rejects leaves the file as it was or cut short.
WriteEpisode ==
    /\ scraperPc = "writeFile"
    /\ LET episode == allEpisodes[episodeCursor]
           id == EpisodeId(episode)
           result == [json |-> "parsed", wpId |-> episode.id,
                      url |-> episode.link, timestamp |-> id.date,
                      transcript |-> CHOOSE t \in episodeTranscript : TRUE]
       IN \/ /\ archive' = [archive EXCEPT ![id] = result]
             /\ episodeReturned' = {result}
             /\ NextEpisode
          \/ /\ archive' \in {archive, [archive EXCEPT ![id] = Truncated]}
             /\ EpisodeThrows
    /\ UNCHANGED cfCookie

\* fs.readdir(archiveDir): the episode directories in the order of the
\* file system
ReadDir ==
    CHOOSE entries \in [1..Cardinality(EpisodeDirs) -> EpisodeDirs] :
        \A i, j \in 1..Cardinality(EpisodeDirs) :
            i # j => entries[i] # entries[j]

\* episodes.sort((a, b) => b.timestamp.localeCompare(a.timestamp)): stable
SortByTimestamp(episodes) ==
    LET n == Len(episodes)
        order == CHOOSE o \in [1..n -> 1..n] :
                     \A i, j \in 1..n :
                         i < j => \/ episodes[o[i]].timestamp
                                        > episodes[o[j]].timestamp
                                  \/ /\ episodes[o[i]].timestamp
                                          = episodes[o[j]].timestamp
                                     /\ o[i] < o[j]
    IN [k \in 1..n |-> episodes[order[k]]]

\* the loop of updateIndex over the entries: the records that parse, then
\* the sort
Manifest(dir) ==
    LET IsParsed(d) == dir[d].json = "parsed"
        parsed == SelectSeq(ReadDir, IsParsed)
    IN SortByTimestamp([k \in 1..Len(parsed) |-> dir[parsed[k]]])

\* await updateIndex(archiveDir), then the cookies are reset and the run
\* returns; a rejected readdir or write is caught by runScraperLoop
updateIndex ==
    /\ scraperPc = "updateIndex"
    /\ RunEnds
    /\ \/ /\ archiveIndex' = {Manifest(archive)}
          /\ cfCookie' = FALSE
       \/ UNCHANGED <<archiveIndex, cfCookie>>
    /\ UNCHANGED <<archive, episodeTranscript, runs>>

ScrapeNext ==
    \/ StartRun /\ ScraperOnly
    \/ FetchEndpoint /\ ScraperOnly
    \/ EpisodeLoop /\ ScraperOnly
    \/ CheckProcessed /\ ScraperOnly
    \/ MkdirEpisode /\ ScraperOnly
    \/ DownloadAudio /\ ScraperOnly
    \/ TranscribeEpisode /\ ScraperOnly
    \/ WriteEpisode /\ ScraperOnly
    \/ updateIndex /\ ScraperOnly

ScrapeSpec == Init /\ [][ScrapeNext]_vars

\* ================================================================ claims
\* position of a chunk file in the order of delivery (0: not delivered)
DeliveredAt(file) ==
    IF \E k \in 1..Len(delivered) : delivered[k].file = file
    THEN CHOOSE k \in 1..Len(delivered) : delivered[k].file = file
    ELSE 0

MusicFiles == { delivered[k].file : k \in { j \in 1..Len(delivered) :
                                              ~delivered[j].hasSpeech } }

SpeechFiles == { delivered[k].file : k \in { j \in 1..Len(delivered) :
                                               delivered[j].hasSpeech } }

MusicBetween(f, g) ==
    \E m \in MusicFiles :
        DeliveredAt(f) < DeliveredAt(m) /\ DeliveredAt(m) < DeliveredAt(g)

Contiguous(chunks) ==
    \A i, j \in 1..Len(chunks) :
        i < j => ~MusicBetween(chunks[i].file, chunks[j].file)

InArrivalOrder(chunks) ==
    \A i, j \in 1..Len(chunks) :
        i < j => DeliveredAt(chunks[i].file) < DeliveredAt(chunks[j].file)

Done(i) == tasks[i].pc = "done"

ChunkArrived == Len(delivered') = Len(delivered) + 1

MergeStarted == Len(tasks') = Len(tasks) + 1

NominalEnd(chunk) == chunk.startTime + CHUNK_DURATION_SECS * 1000

\* C1: in every reachable state at most one merge is in flight, and the
\* flag is set while one is.
C1_AtMostOneMerge ==
    /\ Cardinality(InFlight) <= 1
    /\ InFlight # {} => isProcessing

\* a music chunk arrived while a merge was in flight and chunks were
\* pending: the trigger was turned down
C1_Witness ==
    /\ InFlight # {}
    /\ Len(pendingChunks) > 0
    /\ ~Last(delivered).hasSpeech
    /\ Last(pendingChunks).file < Last(delivered).file
    /\ \A i \in InFlight : Last(delivered).file \notin tasks[i].musicFile

\* C2: the pending queue, and every merge's chunk list, holds no two chunks
\* with a music chunk delivered between them.
C2_QueueContiguous ==
    /\ Contiguous(pendingChunks)
    /\ \A i \in 1..Len(tasks) : Contiguous(tasks[i].chunks)

\* C3: a music chunk arriving at a non-empty queue with no merge in flight
\* starts exactly one merge, of the whole queue in arrival order, and
\* empties the queue in the same step.
C3_MusicDrainsWholeQueue ==
    [][(/\ ChunkArrived
        /\ ~Last(delivered').hasSpeech
        /\ Len(pendingChunks) > 0
        /\ InFlight = {})
       => /\ MergeStarted
          /\ SubSeq(tasks', 1, Len(tasks)) = tasks
          /\ Last(tasks').chunks = pendingChunks
          /\ Last(tasks').pc # "done"
          /\ InArrivalOrder(Last(tasks').chunks)
          /\ pendingChunks' = <<>>]_vars

\* [speech, speech, music]: one merge of the two speech chunks
C3_Witness ==
    /\ Len(delivered) = 3
    /\ delivered[1].hasSpeech /\ delivered[2].hasSpeech
    /\ ~delivered[3].hasSpeech
    /\ Len(tasks) = 1
    /\ ChunkPaths(tasks[1].chunks) = <<delivered[1].file, delivered[2].file>>
    /\ pendingChunks = <<>>

\* C4: a music chunk is never in the pending queue, in a merge's chunk list
\* or in a broadcast's audio, and fs.unlink has been issued for it once its
\* handler is through, after a failed merge as after a successful one.
C4_MusicNeverMerged ==
    \A m \in MusicFiles :
        /\ m \notin ChunkFileSet(pendingChunks)
        /\ \A i \in 1..Len(tasks) : m \notin ChunkFileSet(tasks[i].chunks)
        /\ \A a \in audio : \A k \in 1..Len(a.inputPaths) : a.inputPaths[k] # m
        /\ \/ m \in unlinkCalled
           \/ \E i \in InFlight : m \in tasks[i].musicFile
        /\ m \in files => \/ m \in UnlinkFailures
                          \/ \E i \in InFlight : m \in tasks[i].musicFile

\* a merge started by a music chunk failed and the music chunk is gone
C4_Witness ==
    \E i \in 1..Len(tasks) :
        /\ Done(i) /\ tasks[i].trigger = "music"
        /\ tasks[i].error = "transcribeAudio"
        /\ tasks[i].musicFile # {}
        /\ tasks[i].musicFile \subseteq unlinkCalled \ files

RECURSIVE Occurrences(_, _)
Occurrences(chunks, file) ==
    IF chunks = <<>> THEN 0
    ELSE (IF Head(chunks).file = file THEN 1 ELSE 0)
            + Occurrences(Tail(chunks), file)

RECURSIVE OccurrencesInTasks(_, _)
OccurrencesInTasks(n, file) ==
    IF n = 0 THEN 0
    ELSE Occurrences(tasks[n].chunks, file) + OccurrencesInTasks(n - 1, file)

\* C5: every speech chunk is in exactly one place: once in the pending
\* queue or once in the chunk list of exactly one merge (in flight or
\* finished).
C5_NoOverlap ==
    \A f \in SpeechFiles :
        Occurrences(pendingChunks, f) + OccurrencesInTasks(Len(tasks), f) = 1

\* one chunk in a finished merge, one in the merge in flight, one pending
C5_Witness ==
    /\ \E i \in 1..Len(tasks) : Done(i) /\ tasks[i].error = "none"
    /\ \E i \in 1..Len(tasks) : Done(i) /\ tasks[i].error # "none"
    /\ InFlight # {}
    /\ Len(pendingChunks) > 0

\* C6: an idle-timer tick, one minute after the last, starts a merge of the
\* whole queue exactly when the queue is non-empty, no merge is in flight
\* and the last pending chunk's nominal end lies more than 5 minutes back;
\* otherwise it changes nothing but the clock.
C6_IdleCheck ==
    [][now' # now =>
        /\ now' = now + 60 * 1000
        /\ IF /\ Len(pendingChunks) > 0
              /\ InFlight = {}
              /\ now' - NominalEnd(Last(pendingChunks)) > 5 * 60 * 1000
           THEN /\ MergeStarted
                /\ SubSeq(tasks', 1, Len(tasks)) = tasks
                /\ Last(tasks').chunks = pendingChunks
                /\ Last(tasks').pc # "done"
                /\ pendingChunks' = <<>>
                /\ isProcessing'
           ELSE UNCHANGED <<pendingChunks, isProcessing, tasks>>
        /\ UNCHANGED <<delivered, files, unlinkCalled, audio, records, index>>
      ]_vars

\* the tick that first finds the last chunk more than 5 minutes old has
\* started a merge of two chunks; the tick before, at exactly 5 minutes,
\* had not
C6_Witness ==
    /\ Len(tasks) = 1
    /\ tasks[1].trigger = "idle" /\ tasks[1].pc = "mkdir"
    /\ Len(tasks[1].chunks) = 2
    /\ now - NominalEnd(Last(tasks[1].chunks)) = 6 * 60 * 1000
    /\ pendingChunks = <<>>

\* C7: with the timer firing and every merge step settling, every chunk in
\* the pending queue is eventually in a merge's chunk list.
C7_EventuallyDrained ==
    \A f \in ChunkFiles :
        (f \in ChunkFileSet(pendingChunks))
            ~> (\E i \in 1..Len(tasks) : f \in ChunkFileSet(tasks[i].chunks))

\* the idle timer drained chunks that had stayed pending across a music
\* chunk, that is, while an earlier merge was in flight
C7_Witness ==
    \E i \in 1..Len(tasks) :
        /\ i > 1
        /\ tasks[i].trigger = "idle"
        /\ ~Contiguous(tasks[i].chunks)
        /\ pendingChunks = <<>>

RecordOf(i) == { r \in records : r.id = TaskId(i) }

\* C8: a merge started by the idle timer and one started by a music chunk
\* do the same to the same queue: the step that starts it moves the whole
\* queue into the merge and sets the flag, the write persists the record
\* the chunk list determines, and the step that ends it clears the flag and
\* leaves the queue alone.
C8_SameMergeOnBothPaths ==
    [][\A trigger \in {"music", "idle"} :
        /\ (MergeStarted /\ Last(tasks').trigger = trigger)
            => /\ ~isProcessing /\ isProcessing'
               /\ Last(tasks').chunks = pendingChunks
               /\ Last(tasks').pc = "mkdir"
               /\ pendingChunks' = <<>>
        /\ \A i \in 1..Len(tasks) :
            tasks[i].trigger = trigger =>
               /\ (tasks[i].pc = "writeFile" /\ tasks'[i].pc = "unlink")
                   => \E r \in records' :
                        /\ r.id = BroadcastId(r.timestamp)
                        /\ r.timestamp
                             = toISOString(tasks[i].chunks[1].startTime)
                        /\ r.duration = Len(tasks[i].chunks)
                                          * CHUNK_DURATION_SECS * 1000
                        /\ \E a \in audio :
                             /\ a.id = r.id
                             /\ a.inputPaths = ChunkPaths(tasks[i].chunks)
               /\ (~Done(i) /\ tasks'[i].pc = "done")
                   => /\ ~isProcessing'
                      /\ pendingChunks' = pendingChunks
                      /\ tasks'[i].chunks = tasks[i].chunks
      ]_vars

\* both paths have persisted a broadcast
C8_Witness ==
    \E i, j \in 1..Len(tasks) :
        /\ tasks[i].trigger = "music" /\ tasks[j].trigger = "idle"
        /\ Done(i) /\ Done(j)
        /\ tasks[i].error = "none" /\ tasks[j].error = "none"
        /\ RecordOf(i) # {} /\ RecordOf(j) # {}
        /\ Len(tasks[i].chunks) = Len(tasks[j].chunks)

FailedBeforeRecord(i) ==
    Done(i) /\ tasks[i].error \in {"mergeAudioFiles", "transcribeAudio"}

\* C9: the chunks of a merge that failed in concatenation or transcription
\* are not in the pending queue nor in another merge, no record exists for
\* them, and the flag is clear whenever no merge is in flight.
C9_FailedMergeDropsChunks ==
    /\ \A i \in 1..Len(tasks) :
          FailedBeforeRecord(i) =>
             /\ ChunkFileSet(tasks[i].chunks)
                   \cap ChunkFileSet(pendingChunks) = {}
             /\ \A j \in 1..Len(tasks) :
                   j # i => ChunkFileSet(tasks[i].chunks)
                               \cap ChunkFileSet(tasks[j].chunks) = {}
             /\ RecordOf(i) = {}
             /\ \A r \in records :
                   r.timestamp # toISOString(tasks[i].chunks[1].startTime)
    /\ InFlight = {} => ~isProcessing

\* after a merge failed in transcription a later trigger started a merge
C9_Witness ==
    \E i, j \in 1..Len(tasks) :
        /\ i < j
        /\ FailedBeforeRecord(i) /\ tasks[i].error = "transcribeAudio"
        /\ ~Done(j)

\* C10: a speech chunk arriving while a merge is in flight is at the tail
\* of the pending queue after the same step, and no arrival changes the
\* merge in flight.
C10_ArrivalDuringMerge ==
    [][ChunkArrived =>
        /\ (Last(delivered').hasSpeech /\ InFlight # {})
              => /\ Len(pendingChunks') = Len(pendingChunks) + 1
                 /\ SubSeq(pendingChunks', 1, Len(pendingChunks))
                       = pendingChunks
                 /\ Last(pendingChunks').file = Last(delivered').file
        /\ \A i \in InFlight : tasks'[i] = tasks[i]
      ]_vars

\* a speech chunk was buffered while a merge was in flight
C10_Witness ==
    /\ InFlight # {}
    /\ Len(delivered) > 0 /\ Last(delivered).hasSpeech
    /\ Len(pendingChunks) > 0
    /\ Last(pendingChunks).file = Last(delivered).file
    /\ \A i \in InFlight : tasks[i].pc = "transcribeAudio"

\* C26: a music chunk that arrives while the pending queue is empty has
\* unlink called on its file, and the pending queue, the flag, the merges
\* and the persisted broadcasts are as they were before the step.
C26_MusicOnEmptyQueue ==
    [][(ChunkArrived /\ ~Last(delivered').hasSpeech /\ pendingChunks = <<>>)
        => /\ Last(delivered').file \in unlinkCalled'
           /\ files' \subseteq files \cup UnlinkFailures'
           /\ pendingChunks' = pendingChunks
           /\ isProcessing' = isProcessing
           /\ tasks' = tasks
           /\ records' = records
           /\ index' = index
      ]_vars

\* a music chunk arrived on an empty queue with no merge ever started, and
\* its file is gone
C26_Witness ==
    /\ Len(delivered) > 0 /\ ~Last(delivered).hasSpeech
    /\ pendingChunks = <<>> /\ tasks = <<>> /\ ~isProcessing
    /\ Last(delivered).file \in unlinkCalled \ files

\* C27: a speech chunk that arrives is appended at the tail of the pending
\* queue and nothing else changes: no merge is started or changed, the flag
\* keeps its value, no file is deleted and no unlink is called.
C27_SpeechOnlyAppends ==
    [][(ChunkArrived /\ Last(delivered').hasSpeech)
        => /\ pendingChunks' = Append(pendingChunks,
                  [file |-> Last(delivered').file,
                   startTime |-> ParseSegmentStart(Last(delivered').file),
                   duration |-> CHUNK_DURATION_SECS * 1000,
                   hasSpeech |-> TRUE])
           /\ tasks' = tasks
           /\ isProcessing' = isProcessing
           /\ unlinkCalled' = unlinkCalled
           /\ files \subseteq files'
           /\ Last(delivered').file \in files'
           /\ records' = records
           /\ index' = index
           /\ audio' = audio
      ]_vars

\* a second speech chunk was queued behind the first with no merge started
C27_Witness ==
    /\ Len(delivered) >= 2 /\ Last(delivered).hasSpeech
    /\ Len(pendingChunks) >= 2
    /\ Last(pendingChunks).file = Last(delivered).file
    /\ Last(delivered).file \in files
    /\ tasks = <<>> /\ ~isProcessing

\* the chunk files of merge i that unlink has failed to remove
UnlinkFailedFor(i) == ChunkFileSet(tasks[i].chunks) \cap UnlinkFailures

\* C28: a merge whose source chunk could not be deleted goes on from the
\* deletion to the index rebuild with no error and its record persisted,
\* and when it ends the record is still persisted and the flag is clear.
C28_UnlinkFailureSwallowed ==
    [][\A i \in 1..Len(tasks) :
          /\ (tasks[i].pc = "unlink" /\ tasks'[i].pc # "unlink"
                 /\ ChunkFileSet(tasks[i].chunks) \cap files' # {})
                => /\ tasks'[i].pc = "updateLiveIndex"
                   /\ tasks'[i].error = "none"
                   /\ \E r \in records' : r.id = TaskId(i)
          /\ (tasks[i].pc = "updateLiveIndex" /\ tasks'[i].pc = "done"
                 /\ UnlinkFailedFor(i) # {})
                => /\ \E r \in records' : r.id = TaskId(i)
                   /\ ~isProcessing'
                   /\ tasks'[i].error = "none"
                        => \E k \in 1..Len(index') :
                               index'[k].id = TaskId(i)
      ]_vars

\* a merge ended without error, its record is persisted and indexed, the
\* flag is clear, and one of its source chunks is still on disk after the
\* unlink call
C28_Witness ==
    \E i \in 1..Len(tasks) :
        /\ tasks[i].pc = "done" /\ tasks[i].error = "none"
        /\ UnlinkFailedFor(i) # {}
        /\ RecordOf(i) # {}
        /\ \E k \in 1..Len(index) : index[k].id = TaskId(i)
        /\ ~isProcessing /\ InFlight = {}

\* ------------------------------------------------------ recorder claims
\* the segment-start line the handler matches in a step that observes one
ObservedName ==
    LET holding == { p \in 1..Len(procs) : procs[p].unread # <<>>
                                            /\ procs'[p].unread = <<>> }
    IN IF holding # {} THEN Head(procs[CHOOSE p \in holding : TRUE].unread)
       ELSE now' \div 1000

\* files whose segment-start line is written and not read yet
HeldBack == UNION { Range(procs[p].unread) : p \in 1..Len(procs) }

\* a SIGKILL is sent to instance p in this step
KillSent(p) ==
    \/ procs[p].status = "running" /\ procs'[p].status = "dying"
    \/ procs[p].error = "none" /\ procs'[p].error = "pending"

\* C11: a chunk file is handed to the classifier at most once per file
\* name, whatever segment starts, directory scans and subprocess restarts
\* have happened.
C11_HandedOnce ==
    \A i, j \in 1..Len(handed) : handed[i] = handed[j] => i = j

\* a chunk handed over earlier is still in the directory when a later scan,
\* run for a restarted subprocess, hands over a chunk of that subprocess
C11_Witness ==
    /\ Len(procs) >= 2
    /\ \E i, j \in 1..Len(handed) :
           /\ i < j
           /\ handed[i] \in files
           /\ handed[j] % CHUNK_DURATION_SECS # 0

\* C12 as stated: at every observed segment start, every chunk file in the
\* directory other than the segments that start is handed to the classifier.
C12_ScanAtEveryEvent ==
    [][segmentEvents' > segmentEvents
         => \A f \in files' \ (HeldBack \cup {now' \div 1000}) :
                f \in Range(handed')]_vars

\* C12: at every observed segment start after the first one of the run,
\* unless the segment named is already acknowledged, every chunk file in
\* the directory other than the segment named has been handed to the
\* classifier when the handler returns.
C12_ScanAfterFirstEvent ==
    [][(/\ segmentEvents' > segmentEvents
        /\ segmentEvents >= 1
        /\ ObservedName \notin completedSegments)
         => \A f \in files' \ {ObservedName} : f \in Range(handed')]_vars

\* the first subprocess has ended and its restart has handed over
\* the file left by the earlier run and every file of the subprocess,
\* the unfinished last one included
C12_Witness ==
    /\ Len(procs) >= 2
    /\ procs[1].status = "exited"
    /\ LeftoverFiles \subseteq Range(handed)
    /\ \E f \in files : f >= 0 /\ f % CHUNK_DURATION_SECS = 0
    /\ \A f \in files : f % CHUNK_DURATION_SECS = 0 => f \in Range(handed)

\* C13: every exit or error event schedules startRecording 5 s later, the
\* timer spawns a new subprocess when it fires, and a scheduled restart
\* always comes to spawn.
C13_RestartAfterExitOrError ==
    /\ [][/\ EventsHandled(procs') > EventsHandled(procs)
             => restartTimers' =
                    Append(restartTimers, now + RESTART_DELAY_MS)
          /\ Len(restartTimers') < Len(restartTimers)
             => /\ Len(procs') = Len(procs) + 1
                /\ now' = Head(restartTimers)
                /\ ffmpegProcess' = {Len(procs')}]_vars
    /\ \A n \in 1..MaxSpawns :
           (restartTimers # <<>> /\ Len(procs) = n) ~> (Len(procs) > n)

\* a subprocess has ended and its successor is running
C13_Witness ==
    /\ Len(procs) >= 2
    /\ EventsHandled(procs) >= 1
    /\ restartTimers = <<>>
    /\ procs[Len(procs)].status = "running"

\* C14 as stated: at each watchdog tick a running subprocess is sent the
\* kill exactly when more than 5 minutes have passed since it was started
\* or its last segment start was observed.
C14_WatchdogKillsStalled ==
    [][watchdogDue' # watchdogDue
         => \A p \in 1..Len(procs) :
                procs[p].status = "running"
                  => (KillSent(p)
                        <=> now' - procs[p].activity > STALE_THRESHOLD_MS)
      ]_vars

\* -------------------------------------------------------- poller claims
\* C15: when a sample has been inserted, no sample of the buffer is older
\* than the 15-minute retention window and the buffer is ordered by
\* timestamp, also when fetches settle out of order.
C15_NoStaleSampleAfterInsert ==
    [][metadataBuffer' # metadataBuffer
         => /\ \A k \in 1..Len(metadataBuffer') :
                   metadataBuffer'[k].timestamp >= now' - RETENTION_MS
            /\ \A k \in 1..(Len(metadataBuffer') - 1) :
                   metadataBuffer'[k].timestamp
                       <= metadataBuffer'[k + 1].timestamp]_vars

\* two polls have settled in the reverse of their start order, and a
\* sample has been evicted by an insert made after the window had passed
C15_Witness ==
    /\ \E i, j \in SettledPolls : i < j /\ polls[i].rank > polls[j].rank
    /\ metadataBuffer # <<>>
    /\ Len(metadataBuffer) < Cardinality(SettledPolls)
    /\ Last(metadataBuffer).timestamp > RETENTION_MS

RangePoints ==
    {0, 2 * POLL_INTERVAL_MS, CHUNK_DURATION_SECS * 1000,
     RETENTION_MS + 2 * POLL_INTERVAL_MS}

\* time ranges [startMs, endMs] the queries are asked for
TimeRanges == { r \in RangePoints \X RangePoints : r[1] <= r[2] }

\* C16: for every time range and every buffer the poller can build, the
\* speech ratio lies in [0, 1], the range is speech exactly when the ratio
\* is above 0, and a range without a sample is not speech and has ratio 0.
C16_RatioAndSpeech ==
    \A r \in TimeRanges :
        LET ratio == getChunkSpeechRatio(metadataBuffer, r[1], r[2])
            isSpeech == chunkHasSpeech(metadataBuffer, r[1], r[2])
            samples == SelectSamples(metadataBuffer, r[1], r[2])
        IN /\ ratio.den > 0
           /\ 0 <= ratio.num /\ ratio.num <= ratio.den
           /\ isSpeech <=> ratio.num > 0
           /\ samples = <<>> => ~isSpeech /\ ratio.num = 0

\* a range holds samples with and without artist: a ratio strictly
\* between 0 and 1
C16_Witness ==
    \E r \in TimeRanges :
        LET ratio == getChunkSpeechRatio(metadataBuffer, r[1], r[2])
        IN 0 < ratio.num /\ ratio.num < ratio.den

\* C17: every poll whose fetch settles pushes a sample stamped with the
\* current time, whatever has failed before; when the fetch has failed
\* the sample has no artist and no title and its instant is speech.
C17_FailedFetchRecordsSpeech ==
    [][\A i \in 1..Len(polls) :
           (polls[i].state = "fetching" /\ polls'[i].state = "done")
             => /\ metadataBuffer' # <<>>
                /\ Last(metadataBuffer').timestamp = now
                /\ polls'[i].failed
                     => /\ Last(metadataBuffer').artist = NoArtist
                        /\ Last(metadataBuffer').title = NoTitle
                        /\ chunkHasSpeech(metadataBuffer', now, now)
                        /\ lastMetaStatus' = "speech"]_vars

\* a poll has failed and recorded its sample, and a poll settling after it
\* has recorded a song
C17_Witness ==
    /\ \E i, j \in SettledPolls :
           /\ polls[i].failed /\ ~polls[j].failed
           /\ polls[i].rank < polls[j].rank
    /\ Len(metadataBuffer) >= 2
    /\ metadataBuffer[Len(metadataBuffer) - 1].artist = NoArtist
    /\ metadataBuffer[Len(metadataBuffer) - 1].title = NoTitle
    /\ Last(metadataBuffer).artist # NoArtist

\* ----------------------------------------------------- assembler claims
\* C18 as stated: a chunk whose range holds no metadata sample is neither
\* deleted nor taken as the music that ends a run of speech chunks.
C18_NoSampleIsIndeterminate ==
    [][(Len(delivered') > Len(delivered) /\ lastSamples' = 0)
         => /\ Last(delivered').file \in files'
            /\ Last(delivered').file \notin unlinkCalled'
            /\ Len(tasks') = Len(tasks)]_vars

\* C19: no two merges have the same broadcast id; writing the audio file or
\* the record of a merge adds one entry and leaves every earlier one.
C19_IdsCollisionFree ==
    /\ [](\A i, j \in 1..Len(tasks) : TaskId(i) = TaskId(j) => i = j)
    /\ [][/\ records' # records
             => /\ records \subseteq records'
                /\ Cardinality(records') = Cardinality(records) + 1
                /\ Cardinality({ r.id : r \in records' })
                       = Cardinality(records')
          /\ audio' # audio
             => /\ audio \subseteq audio'
                /\ Cardinality({ a.id : a \in audio' })
                       = Cardinality(audio) + 1]_vars

\* two merges have persisted their broadcasts
C19_Witness ==
    /\ Cardinality(records) >= 2
    /\ Cardinality({ i \in 1..Len(tasks) : Done(i) }) >= 2

\* C20: every persisted broadcast has the duration 120000 ms times the
\* number of chunks of its merge, and as timestamp the start instant of the
\* first chunk of that merge.
C20_DurationAndTimestamp ==
    \A r \in records :
        \E i \in 1..Len(tasks) :
            /\ r.id = TaskId(i)
            /\ r.duration = Len(tasks[i].chunks) * CHUNK_DURATION_SECS * 1000
            /\ IsoKey(r.timestamp) = tasks[i].chunks[1].startTime
            /\ tasks[i].chunks[1].startTime
                   = ParseSegmentStart(tasks[i].chunks[1].file)

\* a broadcast of two or more chunks is persisted
C20_Witness ==
    \E r \in records :
        /\ r.duration >= 2 * CHUNK_DURATION_SECS * 1000
        /\ IsoKey(r.timestamp) > 0

\* C29: at most one capture subprocess is running or scheduled to be
\* started at any time, whatever exit events, error events and watchdog
\* kills have happened.
C29_AtMostOneCapture ==
    Cardinality(Alive) + Len(restartTimers) <= 1

\* C30: chunk files are handed to the classifier in strictly increasing
\* order of the timestamp in their names, over all scans.
C30_HandedInOrder ==
    \A i, j \in 1..Len(handed) : i < j => handed[i] < handed[j]

\* the awaited steps of a merge, in the order of the code
MergeOrder == <<"mkdir", "mergeAudioFiles", "transcribeAudio", "writeFile",
                "unlink", "updateLiveIndex", "done">>

\* C32: a merge moves through its steps in the order concatenate,
\* transcribe, persist record, delete source chunks, rebuild index, and a
\* step that fails ends it; a source chunk file disappears only in the
\* deletion step of its merge, with the record written; the index changes
\* only in the last step of a merge that did not fail; and after a failed
\* concatenation or transcription the source chunks are on disk, no record
\* exists for the merge and the failing step leaves the index alone.
C32_MergeStepsInOrder ==
    /\ [](\A i \in 1..Len(tasks) :
            FailedBeforeRecord(i) =>
               /\ ChunkFileSet(tasks[i].chunks) \subseteq files
               /\ ChunkFileSet(tasks[i].chunks) \cap unlinkCalled = {}
               /\ RecordOf(i) = {})
    /\ [][/\ \A i \in 1..Len(tasks) :
             /\ tasks'[i].pc # tasks[i].pc =>
                   \/ /\ tasks'[i].error = "none"
                      /\ \E k \in 1..(Len(MergeOrder) - 1) :
                             /\ MergeOrder[k] = tasks[i].pc
                             /\ MergeOrder[k + 1] = tasks'[i].pc
                   \/ /\ tasks'[i].pc = "done"
                      /\ tasks'[i].error = tasks[i].pc
                      /\ index' = index
                      /\ records' = records
             /\ (files \ files') \cap ChunkFileSet(tasks[i].chunks) # {} =>
                   /\ tasks[i].pc = "unlink"
                   /\ RecordOf(i) # {}
          /\ index' # index =>
                \E i \in 1..Len(tasks) :
                    /\ tasks[i].pc = "updateLiveIndex"
                    /\ tasks'[i].pc = "done"
                    /\ tasks'[i].error = "none"
                    /\ RecordOf(i) # {}
         ]_vars

\* one merge failed in concatenation and kept its chunks on disk, a later
\* one ran through: record written, chunks deleted, index rebuilt
C32_Witness ==
    \E i, j \in 1..Len(tasks) :
        /\ FailedBeforeRecord(i) /\ tasks[i].error = "mergeAudioFiles"
        /\ ChunkFileSet(tasks[i].chunks) \subseteq files
        /\ Done(j) /\ tasks[j].error = "none"
        /\ ChunkFileSet(tasks[j].chunks) \cap files = {}
        /\ RecordOf(j) \subseteq Range(index) /\ RecordOf(j) # {}

\* C31: the file a subprocess has just opened for writing is not handed to
\* the classifier in the step that opens it, and the first segment-start
\* event of a run hands over nothing.
C31_OpenFileNotHanded ==
    [][/\ \A f \in files' \ files : f \notin Range(handed')
       /\ (segmentEvents = 0 /\ segmentEvents' = 1) => handed' = handed
      ]_vars

\* ------------------------------------------------------- library claims
\* positions where a word (a maximal run of non-whitespace) starts
WordStarts(text) ==
    { i \in 1..Len(text) :
        text[i] \notin Whitespace
            /\ (i = 1 \/ text[i - 1] \in Whitespace) }

\* the word that starts at position i
WordAt(text, i) ==
    LET j == CHOOSE e \in i..Len(text) :
                 /\ \A k \in i..e : text[k] \notin Whitespace
                 /\ (e = Len(text) \/ text[e + 1] \in Whitespace)
    IN SubSeq(text, i, j)

\* the words of a text, in the order they stand
WordsOf(text) ==
    LET starts == WordStarts(text)
        nth(k) == CHOOSE i \in starts :
                      Cardinality({ h \in starts : h < i }) = k - 1
    IN [k \in 1..Cardinality(starts) |-> WordAt(text, nth(k))]

\* the words of a transcript: those of its segments, in segment order
RECURSIVE TranscriptWords(_)
TranscriptWords(segments) ==
    IF segments = <<>> THEN <<>>
    ELSE WordsOf(Head(segments).text) \o TranscriptWords(Tail(segments))

RECURSIVE TotalLen(_)
TotalLen(strings) ==
    IF strings = <<>> THEN 0 ELSE Len(Head(strings)) + TotalLen(Tail(strings))

\* C24: the title generateTitle returns is the first maxWords words of
\* the transcript's text with exactly one space between two words and
\* nothing before or after them, followed by "..." exactly when the text
\* has more than maxWords words.
C24_TitleIsFirstWords ==
    \A t \in titleReturned :
        LET words == TranscriptWords(titleSegments)
            n == IF Len(words) < titleMaxWords THEN Len(words)
                 ELSE titleMaxWords
            marked == Len(words) > titleMaxWords
            body == IF marked /\ Len(t) >= 3 THEN SubSeq(t, 1, Len(t) - 3)
                    ELSE t
        IN /\ marked => /\ Len(t) >= 3
                        /\ SubSeq(t, Len(t) - 2, Len(t)) = <<".", ".", ".">>
           /\ WordsOf(body) = SubSeq(words, 1, n)
           /\ Len(body) = TotalLen(SubSeq(words, 1, n))
                              + (IF n > 0 THEN n - 1 ELSE 0)

\* a transcript of three words in two segments, one of them untrimmed, was
\* given the title of its first two words and the marker
C24_Witness ==
    /\ titleReturned = {<<"a", "a", " ", "a", ".", ".", ".">>}
    /\ titleMaxWords = 2
    /\ Len(titleSegments) = 2
    /\ Len(TranscriptWords(titleSegments)) = 3
    /\ \E i \in 1..2 : Head(titleSegments[i].text) \in Whitespace

\* the segments of sub-file k are ordered by start, end where they start or
\* later, and lie within the duration reported for the sub-file
WellFormedResult(result) ==
    /\ \A m \in 1..Len(result.segments) :
           /\ result.segments[m].start <= result.segments[m].end
           /\ result.segments[m].end <= result.duration
    /\ \A m \in 1..(Len(result.segments) - 1) :
           result.segments[m].start <= result.segments[m + 1].start

\* the reported durations of the sub-files before k, each in ms, summed
RECURSIVE ReportedMsBefore(_)
ReportedMsBefore(k) ==
    IF k <= 1 THEN 0
    ELSE ReportedMsBefore(k - 1) + RoundMs(chunkResults[k - 1].duration)

\* segments of the sub-files before k
RECURSIVE SegmentsBefore(_)
SegmentsBefore(k) ==
    IF k <= 1 THEN 0
    ELSE SegmentsBefore(k - 1) + Len(chunkResults[k - 1].segments)

\* C21: the transcript returned for an oversized file has every segment
\* of sub-file k at its reported times in ms plus the sum of the reported
\* durations in ms of the sub-files before k; and when every sub-file's
\* segments are ordered, end no earlier than they start and lie within the
\* reported duration, the transcript, of a split file or not, is
\* non-decreasing in start with end >= start for every segment.
C21_TranscriptOrdered ==
    transcribePc = "returned" =>
        /\ fileSize > MAX_FILE_SIZE =>
              /\ Len(allSegments) = SegmentsBefore(Len(chunkResults) + 1)
              /\ \A k \in 1..Len(chunkResults) :
                   \A m \in 1..Len(chunkResults[k].segments) :
                     LET seg == chunkResults[k].segments[m]
                         out == allSegments[SegmentsBefore(k) + m]
                     IN /\ out.start = RoundMs(seg.start) + ReportedMsBefore(k)
                        /\ out.end = RoundMs(seg.end) + ReportedMsBefore(k)
        /\ (\A k \in 1..Len(chunkResults) : WellFormedResult(chunkResults[k]))
              => /\ \A i \in 1..Len(allSegments) :
                        allSegments[i].start <= allSegments[i].end
                 /\ \A i \in 1..(Len(allSegments) - 1) :
                        allSegments[i].start <= allSegments[i + 1].start

\* an oversized file in two sub-files with segments in both was
\* transcribed: the second sub-file's segment is reported at an earlier
\* time than the first's and stands after it in the transcript
C21_Witness ==
    /\ transcribePc = "returned"
    /\ fileSize > MAX_FILE_SIZE
    /\ Len(chunkResults) = 2
    /\ \A k \in 1..2 : /\ WellFormedResult(chunkResults[k])
                        /\ chunkResults[k].segments # <<>>
    /\ Len(chunkResults[1].segments) = 2
    /\ chunkResults[2].segments[1].start
           < chunkResults[1].segments[2].start
    /\ allSegments[3].start > allSegments[2].start

\* the rebuild has run and the file system did not fail it
RebuildRan == rebuild \notin {"idle", "io failed"}

\* entries of the directory whose record file is JSON
ParsedEntries ==
    { k \in 1..Len(liveDir) :
        liveDir[k].isDirectory /\ liveDir[k].json = "parsed" }

\* C22: an index rebuild writes a manifest that holds exactly the records
\* of the directory that parse, those with a timestamp by timestamp
\* descending.
C22_ManifestOfParsedRecords ==
    RebuildRan =>
        /\ rebuild = "written"
        /\ { index[i].id : i \in 1..Len(index) } = ParsedEntries
        /\ Len(index) = Cardinality(ParsedEntries)
        /\ \A i, j \in 1..Len(index) :
               (i < j /\ HasTimestamp(index[i]) /\ HasTimestamp(index[j]))
                   => TimestampKey(index[i]) >= TimestampKey(index[j])

\* C23: whatever corrupt records the directory holds (not JSON, or JSON
\* without the timestamp field), the rebuild completes and the manifest
\* holds exactly the remaining records, by timestamp descending.
C23_CorruptRecordSkipped ==
    RebuildRan =>
        /\ rebuild = "written"
        /\ { index[i].id : i \in 1..Len(index) }
              = { k \in ParsedEntries : liveDir[k].timestamp # {} }
        /\ \A i, j \in 1..Len(index) :
               i < j => /\ index[i].id # index[j].id
                        /\ HasTimestamp(index[i]) /\ HasTimestamp(index[j])
                        /\ TimestampKey(index[i]) >= TimestampKey(index[j])

\* C25: a process started without the credential exits with status 1 in
\* its first step, and in no state has it armed a timer, started a poll,
\* spawned or scheduled a capture subprocess or started a merge.
C25_NoWorkWithoutCredential ==
    /\ [](~groqApiKey =>
             /\ service \in {"starting", "exited"}
             /\ service = "exited" => exitCode = {1}
             /\ intervals = {}
             /\ polls = <<>> /\ metadataBuffer = <<>>
             /\ procs = <<>> /\ ffmpegProcess = {} /\ restartTimers = <<>>
             /\ tasks = <<>> /\ ~isProcessing)
    /\ [][(~groqApiKey /\ service = "starting")
            => (service' = "exited" /\ exitCode' = {1})]_vars

\* the process was started without the credential and has exited with
\* status 1, nothing started
C25_Witness ==
    /\ ~groqApiKey
    /\ service = "exited" /\ exitCode = {1}
    /\ intervals = {} /\ polls = <<>> /\ procs = <<>> /\ tasks = <<>>

\* ---------------------------------------------------------- scraper claims
\* the episode processEpisode is working on and its directory
CurrentEpisode == allEpisodes[episodeCursor]

CurrentId == EpisodeId(CurrentEpisode)

LoopBody == {"loop", "processEpisode", "mkdir", "downloadAudio",
             "transcribeAudio", "writeFile"}

\* C34: fetchEpisodes collects every episode id at most once and only
\* episodes with audio; every turn of its loop, failed or not, keeps what
\* was collected and goes on to the next endpoint; the loop over the
\* episodes is left only when every episode has been tried, whatever
\* failed, and then for the rebuild of the archive index.
C34_FailuresIsolated ==
    /\ [](\A i, j \in 1..Len(allEpisodes) :
            /\ allEpisodes[i].has_audio /\ allEpisodes[i].audio_url # ""
            /\ i # j => allEpisodes[i].id # allEpisodes[j].id)
    /\ [][/\ scraperPc = "fetchEpisodes" =>
                /\ Len(allEpisodes') >= Len(allEpisodes)
                /\ SubSeq(allEpisodes', 1, Len(allEpisodes)) = allEpisodes
                /\ IF endpoint < Len(API_ENDPOINTS)
                   THEN endpoint' = endpoint + 1
                   ELSE scraperPc' = "loop" /\ episodeCursor' = 1
          /\ scraperPc \in LoopBody =>
                /\ scraperPc' \in LoopBody \cup {"updateIndex"}
                /\ scraperPc' = "updateIndex"
                      => episodeCursor > Len(allEpisodes)
                /\ episodeCursor' \in {episodeCursor, episodeCursor + 1}
          /\ scraperPc = "updateIndex" =>
                archiveIndex' \in {archiveIndex, {Manifest(archive)}}
         ]_vars

====
